---- MODULE Spec2Model ----
(***************************************************************************)
(* A model of devscast/config-ts: the dotenv parser and cascade            *)
(* (src/src/dotenv.ts), the env accessor and the configuration composer    *)
(* (src/src/index.ts).  JavaScript strings are TLA+ strings; an object     *)
(* with insertion order (Record<string,string>, Object.entries) is a       *)
(* sequence of <<key, value>> pairs with distinct keys; process.env is a   *)
(* function whose DOMAIN is the set of variables that are set.             *)
(***************************************************************************)
EXTENDS Integers, Sequences, FiniteSets, TLC

VARIABLES
    process_env,   \* process.env: [set names -> string]
    files,         \* the filesystem: [readable paths -> file]
    shell,         \* the host's answer to spawnSync (platform, exit status, stdout)
    call,          \* the last operation that ran: its arguments and outcome
    pre_env,       \* process.env when the last operation started
    ncalls         \* number of operations run so far

vars == <<process_env, files, shell, call, pre_env, ncalls>>

----------------------------------------------------------------------------
(* Bounds of the model *)

MaxPopulateCalls == 2   \* populate calls in one process (SpecPopulate)
MaxEntries == 2         \* entries of a map handed to populate
MaxLoadEnvCalls == 2    \* loadEnv calls in one process (SpecLoadEnv)
MaxKeys == 2            \* own properties of an object handed to mergeValues (SpecMerge)
MaxSources == 2         \* sources in the list handed to defineConfig (SpecConfig)
MaxUnits == 2           \* escapes and letters in a double-quoted value (SpecLex)
MaxLines == 2           \* assignments in a text handed to parse (SpecFresh)
MaxTail == 3            \* characters after "A=" in a text (SpecTerminates)
MaxDefineCalls == 2     \* defineConfig calls in one process (SpecConfigForced)
MaxAccessorCalls == 2   \* operations on one accessor (SpecAccessor)

----------------------------------------------------------------------------
(* String helpers (JavaScript String.prototype) *)

\* s[i] with a 0-based index; "" stands for undefined (out of range)
At(s, i) == IF i >= 0 /\ i < Len(s) THEN SubSeq(s, i + 1, i + 1) ELSE ""

\* s.slice(from, to) for 0 <= from, 0-based, end exclusive
Slice(s, from, to) == SubSeq(s, from + 1, IF to > Len(s) THEN Len(s) ELSE to)

\* s.slice(from)
SliceFrom(s, from) == SubSeq(s, from + 1, Len(s))

\* the characters String.prototype.trim and the regex class \s remove
\* (restricted to the ones the model's alphabet contains)
WhiteSpace == {" ", "\t", "\n", "\r"}

RECURSIVE TrimStart(_)
TrimStart(s) ==
    IF Len(s) > 0 /\ At(s, 0) \in WhiteSpace THEN TrimStart(SliceFrom(s, 1)) ELSE s

RECURSIVE TrimEnd(_)
TrimEnd(s) ==
    IF Len(s) > 0 /\ At(s, Len(s) - 1) \in WhiteSpace
    THEN TrimEnd(Slice(s, 0, Len(s) - 1)) ELSE s

Trim(s) == TrimEnd(TrimStart(s))

\* s.split(","): the pieces between commas, in order (never empty: "" -> <<"">>)
RECURSIVE SplitFrom(_, _, _)
SplitFrom(s, start, i) ==
    IF i >= Len(s) THEN <<SliceFrom(s, start)>>
    ELSE IF At(s, i) = "," THEN <<Slice(s, start, i)>> \o SplitFrom(s, i + 1, i + 1)
    ELSE SplitFrom(s, start, i + 1)

SplitComma(s) == SplitFrom(s, 0, 0)

\* Array.prototype.join(",")
RECURSIVE JoinComma(_)
JoinComma(q) ==
    IF Len(q) = 0 THEN ""
    ELSE IF Len(q) = 1 THEN q[1]
    ELSE q[1] \o "," \o JoinComma(Tail(q))

\* the elements of a sequence
Range(q) == {q[i] : i \in 1..Len(q)}

\* new Set(array): the distinct elements in first-insertion order
RECURSIVE Dedup(_, _)
Dedup(q, acc) ==
    IF Len(q) = 0 THEN acc
    ELSE Dedup(Tail(q), IF Head(q) \in Range(acc) THEN acc ELSE Append(acc, Head(q)))

\* array.filter(Boolean) on strings: drop the empty ones
RECURSIVE FilterNonEmpty(_)
FilterNonEmpty(q) ==
    IF Len(q) = 0 THEN <<>>
    ELSE (IF Head(q) = "" THEN <<>> ELSE <<Head(q)>>) \o FilterNonEmpty(Tail(q))

----------------------------------------------------------------------------
(* process.env and ordered maps *)

SENTINEL_VARS == "NODE_DOTENV_VARS"
SENTINEL_PATH == "NODE_DOTENV_PATH"

\* process.env[name] != null
IsSet(env, name) == name \in DOMAIN env

\* process.env[name] ?? dflt
GetOr(env, name, dflt) == IF name \in DOMAIN env THEN env[name] ELSE dflt

\* process.env[name] = value
SetVar(env, name, value) ==
    [k \in DOMAIN env \cup {name} |-> IF k = name THEN value ELSE env[k]]

\* Object.keys(map)
Keys(map) == {map[i][1] : i \in 1..Len(map)}

\* map[name] for a name that is a key
Lookup(map, name) == (CHOOSE i \in 1..Len(map) : map[i][1] = name)

ValueOf(map, name) == map[Lookup(map, name)][2]

\* map[name] = value: an existing key keeps its position, a new one goes last
Assign(map, name, value) ==
    IF name \in Keys(map)
    THEN [map EXCEPT ![Lookup(map, name)] = <<name, value>>]
    ELSE Append(map, <<name, value>>)

----------------------------------------------------------------------------
(* Dotenv.populate *)

\* the names listed in NODE_DOTENV_VARS, as the Set both populate and
\* lexValue build: split on ",", trim, drop empties
loadedVarsOf(env) ==
    LET raw == GetOr(env, SENTINEL_VARS, "")
        parts == SplitComma(raw)
        trimmed == [i \in 1..Len(parts) |-> Trim(parts[i])]
    IN  Dedup(FilterNonEmpty(trimmed), <<>>)

\* populateSkips with the membership test inverted
populateSkips_inverted(loadedVars, overrideExisting, env, name) ==
    /\ name \in Range(loadedVars)
    /\ ~overrideExisting
    /\ IsSet(env, name)

\* the `continue` of the loop: the name is left alone
populateSkips(loadedVars, overrideExisting, env, name) ==
    /\ name \notin Range(loadedVars)
    /\ ~overrideExisting
    /\ IsSet(env, name)

\* The loop over Object.entries(values).  st carries process.env, the local
\* Set loadedVars, the flag updateLoadedVars and (for observation only) the
\* names assigned so far, in order.
RECURSIVE populateLoop(_, _, _)
populateLoop(st, values, overrideExisting) ==
    IF Len(values) = 0 THEN st
    ELSE LET name == values[1][1]
             value == values[1][2]
         IN  IF populateSkips(st.loadedVars, overrideExisting, st.env, name)
             THEN populateLoop(st, Tail(values), overrideExisting)
             ELSE populateLoop(
                    [env |-> SetVar(st.env, name, value),
                     loadedVars |-> IF name \in Range(st.loadedVars)
                                    THEN st.loadedVars
                                    ELSE Append(st.loadedVars, name),
                     updateLoadedVars |-> st.updateLoadedVars
                                          \/ name \notin Range(st.loadedVars),
                     written |-> Append(st.written, name)],
                    Tail(values), overrideExisting)

\* populate that never persists the list of loaded names
populate_forgets(env, values, overrideExisting) ==
    LET persist(st) == [env |-> st.env, written |-> st.written]
    IN  persist(populateLoop([env |-> env,
                              loadedVars |-> loadedVarsOf(env),
                              updateLoadedVars |-> FALSE,
                              written |-> <<>>],
                             values, overrideExisting))

\* populate(values, overrideExisting): the environment afterwards and the
\* names it assigned
populate(env, values, overrideExisting) ==
    LET persist(st) ==
            [env |-> IF st.updateLoadedVars
                     THEN SetVar(st.env, SENTINEL_VARS, JoinComma(st.loadedVars))
                     ELSE st.env,
             written |-> st.written]
    IN  persist(populateLoop([env |-> env,
                              loadedVars |-> loadedVarsOf(env),
                              updateLoadedVars |-> FALSE,
                              written |-> <<>>],
                             values, overrideExisting))

----------------------------------------------------------------------------
(* Regular expressions of the lexer, as matchers at a 0-based position.   *)
(* Each returns the length of the match, or -1 when there is none.        *)

UpperChars == {"A","B","C","D","E","F","G","H","I","J","K","L","M",
               "N","O","P","Q","R","S","T","U","V","W","X","Y","Z"}
DigitChars == {"0","1","2","3","4","5","6","7","8","9"}

\* length of the longest run of characters of `set` starting at i
RECURSIVE RunLen(_, _, _)
RunLen(s, i, set) ==
    IF i < Len(s) /\ At(s, i) \in set THEN 1 + RunLen(s, i + 1, set) ELSE 0

\* s.startsWith(t, i)
StartsWithAt(s, t, i) == i + Len(t) <= Len(s) /\ Slice(s, i, i + Len(t)) = t

\* RX_VARNAME_STICKY = /_?[A-Z][A-Z0-9_]*/y
RX_VARNAME(s, i) ==
    LET j == IF At(s, i) = "_" THEN i + 1 ELSE i
    IN  IF At(s, j) \in UpperChars
        THEN (j - i) + RunLen(s, j, UpperChars \cup DigitChars \cup {"_"})
        ELSE -1

\* RX_EXPORT_STICKY = /export[ \t]*/y
RX_EXPORT(s, i) ==
    IF StartsWithAt(s, "export", i) THEN 6 + RunLen(s, i + 6, {" ", "\t"}) ELSE -1

\* the first index >= i holding a line terminator of the regex `.` and `$`
\* (LF or CR here), or the length of s
RECURSIVE LineEnd(_, _)
LineEnd(s, i) ==
    IF i >= Len(s) \/ At(s, i) \in {"\n", "\r"} THEN i ELSE LineEnd(s, i + 1)

\* RX_EOL_OR_COMMENT = /[ \t]*(?:#.*)?$/my
RX_EOL_OR_COMMENT(s, i) ==
    LET w == RunLen(s, i, {" ", "\t"})
        j == i + w
    IN  IF j >= Len(s) \/ At(s, j) \in {"\n", "\r"} THEN w
        ELSE IF At(s, j) = "#" THEN LineEnd(s, j) - i
        ELSE -1

\* s.indexOf(t, from), or -1
RECURSIVE IndexOf(_, _, _)
IndexOf(s, t, from) ==
    IF from + Len(t) > Len(s) THEN -1
    ELSE IF StartsWithAt(s, t, from) THEN from
    ELSE IndexOf(s, t, from + 1)

\* s.replace(/pat/g, rep) for a literal pattern: leftmost matches, not rescanned
RECURSIVE ReplaceAll(_, _, _)
ReplaceAll(s, pat, rep) ==
    LET k == IndexOf(s, pat, 0)
    IN  IF k = -1 THEN s
        ELSE Slice(s, 0, k) \o rep \o ReplaceAll(SliceFrom(s, k + Len(pat)), pat, rep)

\* number of LF characters of s
RECURSIVE CountLF(_)
CountLF(s) ==
    IF Len(s) = 0 THEN 0
    ELSE (IF At(s, 0) = "\n" THEN 1 ELSE 0) + CountLF(SliceFrom(s, 1))

\* countBackslashesLocal(s, index): the backslashes right before index
RECURSIVE countBackslashesLocal(_, _)
countBackslashesLocal(s, index) ==
    IF index - 1 >= 0 /\ At(s, index - 1) = "\\"
    THEN 1 + countBackslashesLocal(s, index - 1) ELSE 0

----------------------------------------------------------------------------
(* Dotenv: the lexer.  A parser state P is the record of the volatile     *)
(* fields of the Dotenv instance (data_, cursor, lineno, values) plus the *)
(* outcome of the function that just ran: ret is its return value, err    *)
(* the message of the error it threw ("" when it returned), errLine and   *)
(* errCol the position createFormatError recorded, brk whether the value  *)
(* loop was left by `break`.                                              *)

STATE_VARNAME == 0
STATE_VALUE == 1

\* the outcome of a loop that never exits
NoReturn == "(does not return)"

Ch(P) == At(P.data, P.cursor)

EndOf(P) == Len(P.data)

\* throw this.createFormatError(message)
Fail(P, message) ==
    [P EXCEPT !.err = message, !.errLine = P.lineno, !.errCol = P.cursor]

Failed(P) == P.err # ""

Return(P, value) == [P EXCEPT !.ret = value, !.brk = FALSE]

moveCursor(P, text) ==
    [P EXCEPT !.cursor = @ + Len(text), !.lineno = @ + CountLF(text)]

\* the first index >= i holding LF, or the length of s
RECURSIVE NextLF(_, _)
NextLF(s, i) == IF i >= Len(s) \/ At(s, i) = "\n" THEN i ELSE NextLF(s, i + 1)

RECURSIVE skipEmptyLines(_)
skipEmptyLines(P) ==
    IF P.cursor >= EndOf(P) THEN P
    ELSE IF Ch(P) \in {" ", "\t", "\r"}
         THEN skipEmptyLines([P EXCEPT !.cursor = @ + 1])
    ELSE IF Ch(P) = "\n"
         THEN skipEmptyLines([P EXCEPT !.cursor = @ + 1, !.lineno = @ + 1])
    ELSE IF Ch(P) = "#"
         THEN skipEmptyLines([P EXCEPT !.cursor = NextLF(P.data, P.cursor)])
    ELSE P

lexVarname(P) ==
    LET \* after the name: P2 is past varname
        declared(P2, varname, exportMatch) ==
            IF P2.cursor = EndOf(P2) \/ Ch(P2) = "\n" \/ Ch(P2) = "#"
            THEN IF exportMatch
                 THEN Fail(P2, "Unable to unset an environment variable")
                 ELSE Fail(P2, "Missing = in the environment variable declaration")
            ELSE IF Ch(P2) = " " \/ Ch(P2) = "\t"
                 THEN Fail(P2, "Whitespace characters are not supported after the variable name")
            ELSE IF Ch(P2) # "="
                 THEN Fail(P2, "Missing = in the environment variable declaration")
            ELSE Return([P2 EXCEPT !.cursor = @ + 1], varname)
        \* m is the length RX_VARNAME_STICKY matched at P1, or -1
        named(P1, m, exportMatch) ==
            IF m = -1 THEN Fail(P1, "Invalid character in variable name")
            ELSE declared(moveCursor(P1, Slice(P1.data, P1.cursor, P1.cursor + m)),
                          Slice(P1.data, P1.cursor, P1.cursor + m), exportMatch)
        \* P1 is past the optional "export"
        exported(P1, exportMatch) == named(P1, RX_VARNAME(P1.data, P1.cursor), exportMatch)
        \* e is the length RX_EXPORT_STICKY matched, or -1
        start(e) ==
            exported(IF e # -1 THEN moveCursor(P, Slice(P.data, P.cursor, P.cursor + e))
                     ELSE P,
                     e # -1)
    IN  start(RX_EXPORT(P.data, P.cursor))

\* entered with the cursor on "(" ; returns with the cursor on the matching ")"
RECURSIVE lexNestedExpression(_)
RECURSIVE lexNestedLoop(_, _)
lexNestedLoop(P, out) ==
    LET \* Q is the state after the nested expression, if c opens one
        step(c, Q) ==
            IF Failed(Q) THEN Q
            ELSE IF Q.cursor + 1 = EndOf(Q)
                 THEN Fail([Q EXCEPT !.cursor = @ + 1], "Missing closing parenthesis.")
            ELSE lexNestedLoop([Q EXCEPT !.cursor = @ + 1],
                               out \o c \o (IF c = "(" THEN Q.ret \o ")" ELSE ""))
    IN  IF P.cursor >= EndOf(P)
        THEN \* data_[cursor] is undefined from here on and cursor === end_ is
             \* never true again: the loop does not exit
             Fail(P, NoReturn)
        ELSE IF Ch(P) = "\n" THEN Fail(P, "Missing closing parenthesis.")
        ELSE IF Ch(P) = ")" THEN Return(P, out)
        ELSE step(Ch(P), IF Ch(P) = "(" THEN lexNestedExpression(P) ELSE Return(P, ""))

lexNestedExpression(P) == lexNestedLoop([P EXCEPT !.cursor = @ + 1], "")

----------------------------------------------------------------------------
(* Dotenv: command and variable expansion *)

\* RX_TRAILING_NEWLINES = /[\n\r]+$/g removed
RECURSIVE TrimTrailingNewlines(_)
TrimTrailingNewlines(s) ==
    IF Len(s) > 0 /\ At(s, Len(s) - 1) \in {"\n", "\r"}
    THEN TrimTrailingNewlines(Slice(s, 0, Len(s) - 1)) ELSE s

\* RX_TRAILING_WS = /[ \t]+$/g removed
RECURSIVE TrimTrailingWs(_)
TrimTrailingWs(s) ==
    IF Len(s) > 0 /\ At(s, Len(s) - 1) \in {" ", "\t"}
    THEN TrimTrailingWs(Slice(s, 0, Len(s) - 1)) ELSE s

\* The shell is outside the program: sh says what spawnSync answers.
\* sh.platform is process.platform, sh.status the exit status of every
\* command, sh.stdout its output.
executeCommand(P, content, sh) ==
    IF sh.platform = "win32"
    THEN Fail(P, "Resolving commands is not supported on Windows.")
    ELSE IF sh.status # 0
         THEN Fail(P, "Issue expanding a command")
    ELSE Return(P, TrimTrailingNewlines(sh.stdout))

\* extractCommand(value, start): the index of the ")" that closes the
\* command, or -1 when the parentheses never balance
RECURSIVE extractCommandEnd(_, _, _)
extractCommandEnd(value, i, depth) ==
    IF i >= Len(value) THEN -1
    ELSE IF At(value, i) = "(" THEN extractCommandEnd(value, i + 1, depth + 1)
    ELSE IF At(value, i) = ")"
         THEN IF depth - 1 = 0 THEN i ELSE extractCommandEnd(value, i + 1, depth - 1)
    ELSE extractCommandEnd(value, i + 1, depth)

RECURSIVE resolveCommandsFrom(_, _, _, _, _)
resolveCommandsFrom(P, value, cursor, out, sh) ==
    LET \* X is the state after executeCommand
        executed(start, endIndex, X) ==
            IF Failed(X) THEN X
            ELSE resolveCommandsFrom(X, value, endIndex + 1,
                                     out \o Slice(value, cursor, start) \o X.ret, sh)
        extracted(start, endIndex) ==
            IF endIndex = -1 THEN Fail(P, "Missing closing parenthesis.")
            ELSE executed(start, endIndex,
                          executeCommand(P, Slice(value, start + 2, endIndex), sh))
        found(start, backslashes) ==
            IF start = -1 THEN Return(P, out \o SliceFrom(value, cursor))
            ELSE IF backslashes % 2 = 1
                 THEN resolveCommandsFrom(P, value, start + 2,
                        out \o Slice(value, cursor,
                                     IF start - 1 > cursor THEN start - 1 ELSE cursor)
                            \o "$(", sh)
            ELSE extracted(start, extractCommandEnd(value, start + 2, 1))
        at(start) == found(start, countBackslashesLocal(value, start))
    IN  IF cursor >= Len(value) THEN Return(P, out)
        ELSE at(IndexOf(value, "$(", cursor))

resolveCommands(P, value, sh) ==
    IF IndexOf(value, "$(", 0) = -1 THEN Return(P, value)
    ELSE resolveCommandsFrom(P, value, 0, "", sh)

\* findInvalidDefaultChar(input): the offending character, or "" for null
RECURSIVE findInvalidDefaultChar(_)
findInvalidDefaultChar(input) ==
    IF Len(input) = 0 THEN ""
    ELSE LET ch == At(input, 0)
         IN  IF ch = "'" \/ ch = "\"" \/ ch = "{" THEN ch
             ELSE IF ch = "\\" THEN (IF At(input, 1) = "$" THEN "$" ELSE "\\")
             ELSE IF ch = "$" THEN "$"
             ELSE findInvalidDefaultChar(SliceFrom(input, 1))

\* The regular expression of resolveVariables,
\*   (?<!\\)(\\*)\$(?!\()(\{)?(_?[A-Z][A-Z0-9_]*)?(:[-=][^}]*)?(\})?
\* VarMatchStart: where the leftmost match at or after pos starts (-1: none).
\* A match is a "$" not followed by "(", together with the whole run of
\* backslashes before it; the run must not start before pos.
RECURSIVE VarMatchStart(_, _, _)
VarMatchStart(s, pos, from) ==
    LET dollar(d, b) ==
            IF d = -1 THEN -1
            ELSE IF d - b >= pos /\ At(s, d + 1) # "(" THEN d - b
            ELSE VarMatchStart(s, pos, d + 1)
        at(d) == dollar(d, countBackslashesLocal(s, d))
    IN  at(IndexOf(s, "$", from))

\* the first index >= i holding "}", or the length of s
RECURSIVE NextClose(_, _)
NextClose(s, i) == IF i >= Len(s) \/ At(s, i) = "}" THEN i ELSE NextClose(s, i + 1)

\* the groups of the match that starts at i
VarMatch(s, i) ==
    LET \* j2: where the name starts, j3: where it ends, j4: where the default
        \* ends, b: the number of backslashes
        groups(b, opening, j2, j3, j4) ==
            [m |-> Slice(s, i, IF At(s, j4) = "}" THEN j4 + 1 ELSE j4),
             end |-> IF At(s, j4) = "}" THEN j4 + 1 ELSE j4,
             backslashes |-> Slice(s, i, i + b),
             opening |-> opening,
             name |-> Slice(s, j2, j3),
             def |-> Slice(s, j3, j4),
             closing |-> At(s, j4) = "}"]
        default(b, opening, j2, j3) ==
            groups(b, opening, j2, j3,
                   IF At(s, j3) = ":" /\ At(s, j3 + 1) \in {"-", "="}
                   THEN NextClose(s, j3 + 2) ELSE j3)
        name(b, opening, j2, n) ==
            default(b, opening, j2, IF n # -1 THEN j2 + n ELSE j2)
        brace(b, opening, j2) == name(b, opening, j2, RX_VARNAME(s, j2))
        dollar(b) ==
            brace(b, At(s, i + b + 1) = "{",
                  IF At(s, i + b + 1) = "{" THEN i + b + 2 ELSE i + b + 1)
    IN  dollar(RunLen(s, i, {"\\"}))

\* lookupVariable asking process.env first
lookupVariable_envFirst(loadedVars, values, env, name) ==
    IF IsSet(env, name) THEN env[name]
    ELSE IF name \in Keys(values) THEN ValueOf(values, name)
    ELSE ""

\* which value a reference to `name` stands for
lookupVariable(loadedVars, values, env, name) ==
    IF name \in Range(loadedVars) /\ name \in Keys(values) THEN ValueOf(values, name)
    ELSE IF IsSet(env, name) THEN env[name]
    ELSE IF name \in Keys(values) THEN ValueOf(values, name)
    ELSE ""

\* replaceVariable that stores the default under ":-" as well
replaceVariable_alwaysStores(P, g, loadedVars, env) ==
    LET defaultBody == SliceFrom(g.def, 2)
        replaced(val, useDefault, bad) ==
            IF Len(g.backslashes) % 2 = 1 THEN Return(P, SliceFrom(g.m, 1))
            ELSE IF g.name = "" THEN Return(P, g.m)
            ELSE IF g.opening /\ ~g.closing
                 THEN Fail(P, "Unclosed braces on variable expansion")
            ELSE IF useDefault /\ bad # ""
                 THEN Fail(P, "Unsupported character \"" \o bad
                              \o "\" found in the default value of variable \"$"
                              \o g.name \o "\".")
            ELSE Return(IF useDefault
                        THEN [P EXCEPT !.values = Assign(P.values, g.name, defaultBody)]
                        ELSE P,
                        g.backslashes
                        \o (IF useDefault THEN defaultBody ELSE val)
                        \o (IF ~g.opening /\ g.closing THEN "}" ELSE ""))
        looked(val) ==
            replaced(val, val = "" /\ g.def # "", findInvalidDefaultChar(defaultBody))
    IN  looked(lookupVariable(loadedVars, P.values, env, g.name))

\* the replacer callback: P.ret is the replacement text
replaceVariable(P, g, loadedVars, env) ==
    LET defaultBody == SliceFrom(g.def, 2)
        replaced(val, useDefault, bad) ==
            IF Len(g.backslashes) % 2 = 1 THEN Return(P, SliceFrom(g.m, 1))
            ELSE IF g.name = "" THEN Return(P, g.m)
            ELSE IF g.opening /\ ~g.closing
                 THEN Fail(P, "Unclosed braces on variable expansion")
            ELSE IF useDefault /\ bad # ""
                 THEN Fail(P, "Unsupported character \"" \o bad
                              \o "\" found in the default value of variable \"$"
                              \o g.name \o "\".")
            ELSE Return(IF useDefault /\ At(g.def, 1) = "="
                        THEN [P EXCEPT !.values = Assign(P.values, g.name, defaultBody)]
                        ELSE P,
                        g.backslashes
                        \o (IF useDefault THEN defaultBody ELSE val)
                        \o (IF ~g.opening /\ g.closing THEN "}" ELSE ""))
        looked(val) ==
            replaced(val, val = "" /\ g.def # "", findInvalidDefaultChar(defaultBody))
    IN  looked(lookupVariable(loadedVars, P.values, env, g.name))

RECURSIVE resolveVariablesFrom(_, _, _, _, _, _)
resolveVariablesFrom(P, value, pos, out, loadedVars, env) ==
    LET \* R is the state after the replacer ran on the match g found at i
        replaced(i, g, R) ==
            IF Failed(R) THEN R
            ELSE resolveVariablesFrom(R, value, g.end,
                                      out \o Slice(value, pos, i) \o R.ret,
                                      loadedVars, env)
        matched(i, g) == replaced(i, g, replaceVariable(P, g, loadedVars, env))
        found(i) ==
            IF i = -1 THEN Return(P, out \o SliceFrom(value, pos))
            ELSE matched(i, VarMatch(value, i))
    IN  found(VarMatchStart(value, pos, pos))

resolveVariables(P, value, loadedVars, env) ==
    IF IndexOf(value, "$", 0) = -1 THEN Return(P, value)
    ELSE resolveVariablesFrom(P, value, 0, "", loadedVars, env)

----------------------------------------------------------------------------
(* Dotenv: lexValue and parse *)

\* single-quoted segment: literal up to the next quote
lexSingleQuoted(P) ==
    LET closed(k) ==
            IF k = -1
            THEN Fail([P EXCEPT !.cursor = EndOf(P)], "Missing quote to end the value")
            ELSE Return([P EXCEPT !.cursor = k + 1], Slice(P.data, P.cursor + 1, k))
    IN  closed(IndexOf(P.data, "'", P.cursor + 1))

\* backslashes right before index i, not going below start
RECURSIVE backslashCount(_, _, _)
backslashCount(s, i, start) ==
    IF i - 1 >= start /\ At(s, i - 1) = "\\"
    THEN 1 + backslashCount(s, i - 1, start) ELSE 0

\* the index of the closing double quote at or after i, or -1
RECURSIVE closingQuote(_, _, _)
closingQuote(s, i, start) ==
    IF i >= Len(s) THEN -1
    ELSE IF At(s, i) = "\"" /\ backslashCount(s, i, start) % 2 = 0 THEN i
    ELSE closingQuote(s, i + 1, start)

\* the escapes of a double-quoted segment, decoded before expansion
doubleQuoteEscapes(inner) ==
    ReplaceAll(ReplaceAll(ReplaceAll(inner, "\\\"", "\""), "\\r", "\r"), "\\n", "\n")

\* the rest of the double-quoted and bare branches: expand commands, then
\* variables, then turn each pair of backslashes into one
expandValue(P, value, loadedVars, env, sh) ==
    LET unescape(V) ==
            IF Failed(V) THEN V ELSE Return(V, ReplaceAll(V.ret, "\\\\", "\\"))
        variables(C) ==
            IF Failed(C) THEN C ELSE unescape(resolveVariables(C, C.ret, loadedVars, env))
    IN  variables(resolveCommands(P, value, sh))

lexDoubleQuoted(P, loadedVars, env, sh) ==
    LET closed(start, k) ==
            IF start = EndOf(P)
            THEN Fail([P EXCEPT !.cursor = start], "Missing quote to end the value")
            ELSE IF k = -1
            THEN Fail([P EXCEPT !.cursor = EndOf(P)], "Missing quote to end the value")
            ELSE expandValue([P EXCEPT !.cursor = k + 1],
                             doubleQuoteEscapes(Slice(P.data, start, k)),
                             loadedVars, env, sh)
    IN  closed(P.cursor + 1, closingQuote(P.data, P.cursor + 1, P.cursor + 1))

\* the while loop of the bare branch; P.ret is bare.join("")
RECURSIVE lexBareLoop(_, _, _)
lexBareLoop(P, prev, bare) ==
    LET \* N is the state after the nested expression that starts at c + 1
        nested(c, N) ==
            IF Failed(N) THEN N
            ELSE lexBareLoop([N EXCEPT !.cursor = @ + 1], At(P.data, c),
                             bare \o "(" \o N.ret \o ")")
        \* c is the cursor after the optional backslash of an escaped quote
        at(c) ==
            IF At(P.data, c) = "$" /\ At(P.data, c + 1) = "("
            THEN nested(c, lexNestedExpression([P EXCEPT !.cursor = c + 1]))
            ELSE lexBareLoop([P EXCEPT !.cursor = c + 1], At(P.data, c),
                             bare \o At(P.data, c))
    IN  IF /\ P.cursor < EndOf(P)
           /\ Ch(P) \notin {"\n", "\"", "'"}
           /\ ~((prev = " " \/ prev = "\t") /\ Ch(P) = "#")
        THEN at(IF Ch(P) = "\\" /\ At(P.data, P.cursor + 1) \in {"\"", "'"}
                THEN P.cursor + 1 ELSE P.cursor)
        ELSE Return(P, bare)

\* /\s/.test(value)
HasWhiteSpace(s) == \E i \in 0..(Len(s) - 1) : At(s, i) \in WhiteSpace

lexBare(P, loadedVars, env, sh) ==
    LET \* R is the state after the expansions of value
        expanded(R, value) ==
            IF Failed(R) THEN R
            ELSE IF R.ret = value /\ HasWhiteSpace(value)
                 THEN Fail(R, "A value containing spaces must be surrounded by quotes")
            ELSE IF R.cursor < EndOf(R) /\ Ch(R) = "#"
                 THEN [R EXCEPT !.cursor = NextLF(R.data, R.cursor), !.brk = TRUE]
            ELSE R
        trimmed(B, value) == expanded(expandValue(B, value, loadedVars, env, sh), value)
        \* B is the state after the while loop
        collected(B) == IF Failed(B) THEN B ELSE trimmed(B, TrimTrailingWs(B.ret))
    IN  collected(lexBareLoop(P, At(P.data, P.cursor - 1), ""))

\* the do ... while loop over the segments of one value
RECURSIVE lexChunks(_, _, _, _, _)
lexChunks(P, chunks, loadedVars, env, sh) ==
    LET \* Q is the state after one segment
        segment(Q) ==
            IF Failed(Q) THEN Q
            ELSE IF ~Q.brk /\ Q.cursor < EndOf(Q) /\ Ch(Q) # "\n"
                 THEN lexChunks(Q, chunks \o Q.ret, loadedVars, env, sh)
            ELSE Return(Q, chunks \o Q.ret)
    IN  segment(IF Ch(P) = "'" THEN lexSingleQuoted(P)
                ELSE IF Ch(P) = "\"" THEN lexDoubleQuoted(P, loadedVars, env, sh)
                ELSE lexBare(P, loadedVars, env, sh))

lexValue(P, env, sh) ==
    LET \* Q is the state after the segments
        joined(Q) == IF Failed(Q) THEN Q ELSE Return(skipEmptyLines(Q), Q.ret)
        \* m is the length RX_EOL_OR_COMMENT_STICKY matched, or -1
        start(m) ==
            IF m # -1
            THEN Return(skipEmptyLines(moveCursor(P, Slice(P.data, P.cursor, P.cursor + m))),
                        "")
            ELSE IF Ch(P) = " " \/ Ch(P) = "\t"
            THEN Fail(P, "Whitespace are not supported before the value")
            ELSE joined(lexChunks(P, "", loadedVarsOf(env), env, sh))
    IN  start(RX_EOL_OR_COMMENT(P.data, P.cursor))

\* the while loop of parse and the assignment after it
RECURSIVE parseLoop(_, _, _, _, _)
parseLoop(P, state, name, env, sh) ==
    LET named(Q) ==
            IF Failed(Q) THEN Q ELSE parseLoop(Q, STATE_VALUE, Q.ret, env, sh)
        valued(Q) ==
            IF Failed(Q) THEN Q
            ELSE parseLoop([Q EXCEPT !.values = Assign(Q.values, name, Q.ret)],
                           STATE_VARNAME, name, env, sh)
    IN  IF P.cursor < EndOf(P)
        THEN IF state = STATE_VARNAME THEN named(lexVarname(P))
             ELSE valued(lexValue(P, env, sh))
        ELSE IF state = STATE_VALUE
             THEN [P EXCEPT !.values = Assign(P.values, name, "")]
        ELSE P

\* parse(data): the final parser state; its values are the returned map
\* when err = ""
parse(data, env, sh) ==
    LET normalised == IF IndexOf(data, "\r", 0) >= 0
                      THEN ReplaceAll(data, "\r\n", "\n") ELSE data
    IN  parseLoop(skipEmptyLines([data |-> normalised, cursor |-> 0, lineno |-> 1,
                                  values |-> <<>>, ret |-> "", brk |-> FALSE,
                                  err |-> "", errLine |-> 0, errCol |-> 0]),
                  STATE_VARNAME, "", env, sh)

----------------------------------------------------------------------------
(* Inputs shared by the specifications *)

\* no operation has run yet
NoCall == [op |-> "none"]

\* a host on which every command fails
NoShell == [platform |-> "linux", status |-> 1, stdout |-> ""]

\* all functions from a subset of `names` to `vals`
EnvsOver(names, vals) == UNION {[d -> vals] : d \in SUBSET names}

\* the union of two environments with disjoint domains
Merge2(e1, e2) ==
    [k \in DOMAIN e1 \cup DOMAIN e2 |-> IF k \in DOMAIN e1 THEN e1[k] ELSE e2[k]]

\* ordered maps with at most n entries, distinct keys from `names`, values from `vals`
RECURSIVE MapsOver(_, _, _)
MapsOver(names, vals, n) ==
    IF n = 0 THEN {<<>>}
    ELSE LET shorter == MapsOver(names, vals, n - 1)
         IN  shorter \cup
             {Append(m, <<k, v>>) :
                 m \in {x \in shorter : Len(x) = n - 1}, k \in names, v \in vals}

DistinctKeys(map) == Cardinality(Keys(map)) = Len(map)

----------------------------------------------------------------------------
(* SpecPopulate: a process whose host environment sets some of A, B and   *)
(* NODE_DOTENV_VARS, in which populate is called with arbitrary maps.     *)

PopulateNames == {"A", "B", SENTINEL_VARS}
PopulateValues == {"1", "2"}
HostLists == {"", "A", "B,A", " A , B"}

\* the maps handed to populate
PopulateMaps ==
    {m \in MapsOver(PopulateNames, PopulateValues, MaxEntries) : DistinctKeys(m)}

InitPopulate ==
    /\ process_env \in
         {Merge2(e, l) : e \in EnvsOver({"A", "B"}, {"0"}),
                         l \in EnvsOver({SENTINEL_VARS}, HostLists)}
    /\ files = <<>>
    /\ shell = NoShell
    /\ call = NoCall
    /\ pre_env = <<>>
    /\ ncalls = 0

CallPopulate ==
    /\ ncalls < MaxPopulateCalls
    /\ \E values \in PopulateMaps, overrideExisting \in BOOLEAN :
         LET returned(r) ==
                 /\ process_env' = r.env
                 /\ call' = [op |-> "populate", values |-> values,
                             overrideExisting |-> overrideExisting,
                             written |-> r.written]
         IN  returned(populate(process_env, values, overrideExisting))
    /\ pre_env' = process_env
    /\ ncalls' = ncalls + 1
    /\ UNCHANGED <<files, shell>>

NextPopulate == CallPopulate

SpecPopulate == InitPopulate /\ [][NextPopulate]_vars

\* the names listed in NODE_DOTENV_VARS when the last operation started
ListedBefore == Range(loadedVarsOf(pre_env))

\* C1 as stated: populate without override leaves every key of values that
\* was set and not listed unchanged, and assigns a key only when override
\* is true, the key is listed, or the key is unset.
C1_AsStated ==
    call.op = "populate" =>
        \A k \in Keys(call.values) :
            /\ (~call.overrideExisting /\ IsSet(pre_env, k) /\ k \notin ListedBefore)
                   => (IsSet(process_env, k) /\ process_env[k] = pre_env[k])
            /\ k \in Range(call.written)
                   => (call.overrideExisting \/ k \in ListedBefore \/ ~IsSet(pre_env, k))

\* C1 (amended): the same for every key of values other than
\* NODE_DOTENV_VARS itself: populate without override leaves a key that was
\* set and not listed unchanged, and it assigns a key of values only when
\* override is true, the key is listed, or the key is unset.
C1_PopulateKeepsUnlisted ==
    call.op = "populate" =>
        \A k \in Keys(call.values) :
            /\ (/\ k # SENTINEL_VARS
                /\ ~call.overrideExisting
                /\ IsSet(pre_env, k)
                /\ k \notin ListedBefore)
                   => (IsSet(process_env, k) /\ process_env[k] = pre_env[k])
            /\ k \in Range(call.written)
                   => (call.overrideExisting \/ k \in ListedBefore \/ ~IsSet(pre_env, k))

\* C1 witness: a call without override that skipped a set, unlisted key and
\* assigned another one
C1_Witness ==
    /\ call.op = "populate"
    /\ ~call.overrideExisting
    /\ \E k \in Keys(call.values) \ {SENTINEL_VARS} :
          IsSet(pre_env, k) /\ k \notin ListedBefore
    /\ call.written # <<>>

\* the names the call assigned that were not listed when it started, in the
\* order of their first assignment
NewlyWritten ==
    LET NotListed(n) == n \notin ListedBefore
    IN  Dedup(SelectSeq(call.written, NotListed), <<>>)

\* C11 (as stated): after populate(values, override) a name is listed in
\* NODE_DOTENV_VARS iff it was listed before the call or populate wrote it
\* during the call; a skipped key is never added, the names listed before
\* keep their order and the newly written names follow them in the order
\* they were written.
C11_AsStated ==
    call.op = "populate" =>
        /\ Range(loadedVarsOf(process_env)) = ListedBefore \cup Range(call.written)
        /\ loadedVarsOf(process_env) = loadedVarsOf(pre_env) \o NewlyWritten

----------------------------------------------------------------------------
(* Dotenv.loadEnv.  A file is [bom |-> does it start with EF BB BF,        *)
(* text |-> its content]; a path that is missing or is a directory is not  *)
(* in DOMAIN fs.  A cascade state S carries process.env, the error thrown  *)
(* (errName = "" while none) and, for observation, the files populated so  *)
(* far with what parse returned for each, the names populate assigned, and *)
(* the values the local variable env took.                                 *)

File(text) == [bom |-> FALSE, text |-> text]

\* tryReadFile(p) !== null
CanRead(fs, p) == p \in DOMAIN fs

Throw(S, name, message) == [S EXCEPT !.errName = name, !.err = message]

Thrown(S) == S.errName # ""

\* the class of what parse threw
ErrorName(P) ==
    IF P.err = NoReturn THEN "NoReturn"
    ELSE IF P.err = "Resolving commands is not supported on Windows." THEN "Error"
    ELSE "FormatError"

\* populatePath(p)
populatePath(env, p) == SetVar(env, SENTINEL_PATH, p)

\* populate(parse(buf, filepath), overrideExisting) once parse has ended in P
loadBufferParsed(S, filepath, P, overrideExisting) ==
    LET populated(r) ==
            [S EXCEPT !.env = r.env,
                      !.loaded = Append(@, [path |-> filepath, values |-> P.values]),
                      !.written = @ \o r.written]
    IN  IF Failed(P) THEN Throw(S, ErrorName(P), P.err)
        ELSE populated(populate(S.env, P.values, overrideExisting))

\* loadBuffer(buf, filepath, overrideExisting) with buf = fs[filepath]
loadBuffer(S, fs, filepath, overrideExisting, sh) ==
    IF fs[filepath].bom
    THEN Throw(S, "FormatError",
               "Loading files starting with a byte-order-mark (BOM) is not supported.")
    ELSE loadBufferParsed(S, filepath, parse(fs[filepath].text, S.env, sh),
                          overrideExisting)

\* lines 108-120: the base file, or the .dist file when the base is absent
loadEnvBase(S, fs, p, overrideExisting, sh) ==
    IF CanRead(fs, p) THEN loadBuffer(S, fs, p, overrideExisting, sh)
    ELSE IF CanRead(fs, p \o ".dist")
         THEN loadBuffer(S, fs, p \o ".dist", overrideExisting, sh)
    ELSE Throw(S, "PathError", "Env path not readable or is a directory: " \o p)

\* lines 122-126: the env key gets its default when it is unset
loadEnvDefault(S, k, defaultEnv, overrideExisting) ==
    LET populated(r) ==
            [S EXCEPT !.env = r.env, !.written = @ \o r.written,
                      !.envs = Append(@, defaultEnv)]
    IN  IF IsSet(S.env, k) THEN [S EXCEPT !.envs = Append(@, S.env[k])]
        ELSE populated(populate(S.env, <<<<k, defaultEnv>>>>, overrideExisting))

\* lines 128-132: the .local file, unless env is a test environment
loadEnvLocal(S, fs, p, k, testEnvs, overrideExisting, sh) ==
    LET env == S.envs[Len(S.envs)]
        loaded(L) ==
            IF Thrown(L) THEN L
            ELSE [L EXCEPT !.envs = Append(@, GetOr(L.env, k, env))]
    IN  IF env \notin Range(testEnvs) /\ CanRead(fs, p \o ".local")
        THEN loaded(loadBuffer(S, fs, p \o ".local", overrideExisting, sh))
        ELSE [S EXCEPT !.envs = Append(@, env)]

\* lines 138-140: the .local file of the environment env
loadEnvSpecificLocal(E, fs, p, env, overrideExisting, sh) ==
    IF Thrown(E) THEN E
    ELSE IF CanRead(fs, p \o "." \o env \o ".local")
         THEN loadBuffer(E, fs, p \o "." \o env \o ".local", overrideExisting, sh)
    ELSE E

\* lines 134-140: the files of the environment
loadEnvSpecific(S, fs, p, overrideExisting, sh) ==
    LET env == S.envs[Len(S.envs)]
    IN  IF env = "local" THEN S
        ELSE loadEnvSpecificLocal(IF CanRead(fs, p \o "." \o env)
                                  THEN loadBuffer(S, fs, p \o "." \o env,
                                                  overrideExisting, sh)
                                  ELSE S,
                                  fs, p, env, overrideExisting, sh)

\* lines 134-140 after the .local file was loaded: nothing once it threw
loadEnvAfterLocal(S3, fs, p, overrideExisting, sh) ==
    IF Thrown(S3) THEN S3 ELSE loadEnvSpecific(S3, fs, p, overrideExisting, sh)

\* lines 122-140 after the base file was loaded: nothing once it threw
loadEnvAfterBase(S1, fs, p, k, defaultEnv, testEnvs, overrideExisting, sh) ==
    IF Thrown(S1) THEN S1
    ELSE loadEnvAfterLocal(
             loadEnvLocal(loadEnvDefault(S1, k, defaultEnv, overrideExisting),
                          fs, p, k, testEnvs, overrideExisting, sh),
             fs, p, overrideExisting, sh)

loadEnv(env, fs, p, k, defaultEnv, testEnvs, overrideExisting, sh) ==
    loadEnvAfterBase(loadEnvBase([env |-> populatePath(env, p), errName |-> "",
                                  err |-> "", loaded |-> <<>>, written |-> <<>>,
                                  envs |-> <<>>],
                                 fs, p, overrideExisting, sh),
                     fs, p, k, defaultEnv, testEnvs, overrideExisting, sh)

----------------------------------------------------------------------------
(* SpecLoadEnv: a process whose host environment and project files are     *)
(* chosen at start calls loadEnv(".env") with the default envKey,          *)
(* defaultEnv and testEnvs, with or without overrideExisting.              *)

BasePath == ".env"
EnvKey == "APP_ENV"
DefaultEnv == "dev"
TestEnvs == <<"test">>

\* what each project file may contain when it exists
FileChoices ==
    [p \in {".env", ".env.dist", ".env.local", ".env.dev", ".env.dev.local", ".env.test"} |->
        CASE p = ".env" ->
                {"A=b\nB=$A", "APP_ENV=test\nA=b", "NODE_DOTENV_VARS=A", "APP_ENV=local"}
          [] p = ".env.dist" -> {"A=d"}
          [] p = ".env.local" ->
                {"A=l", "APP_ENV=test", "NODE_DOTENV_VARS=A", "A=l x"}
          [] p = ".env.dev" -> {"A=e", "NODE_DOTENV_VARS=B\nNODE_DOTENV_PATH=e"}
          [] p = ".env.dev.local" -> {"A=x"}
          [] p = ".env.test" -> {"A=t"}]

CascadePaths == <<".env", ".env.dist", ".env.local", ".env.dev", ".env.dev.local", ".env.test">>

\* every filesystem in which each path is absent or holds one of its choices
RECURSIVE FileSystemsOver(_)
FileSystemsOver(paths) ==
    IF paths = <<>> THEN {<<>>}
    ELSE LET rest == FileSystemsOver(Tail(paths))
         IN  rest \cup
             {Merge2([p \in {Head(paths)} |-> File(t)], fs) :
                 t \in FileChoices[Head(paths)], fs \in rest}

ProjectFiles == FileSystemsOver(CascadePaths)

HostEnvs ==
    {Merge2(a, e) : a \in EnvsOver({"A"}, {"h"}), e \in EnvsOver({EnvKey}, {"test"})}

InitLoadEnv ==
    /\ process_env \in HostEnvs
    /\ files \in ProjectFiles
    /\ shell = NoShell
    /\ call = NoCall
    /\ pre_env = <<>>
    /\ ncalls = 0

CallLoadEnv ==
    /\ ncalls < MaxLoadEnvCalls
    /\ call.op = "loadEnv" => call.errName # "NoReturn"
    /\ \E overrideExisting \in BOOLEAN :
         LET ended(S) ==
                 /\ process_env' = S.env
                 /\ call' = [op |-> "loadEnv", overrideExisting |-> overrideExisting,
                             errName |-> S.errName, err |-> S.err, loaded |-> S.loaded,
                             written |-> S.written, envs |-> S.envs,
                             earlier |-> IF call.op = "loadEnv"
                                         THEN call.earlier \cup Range(call.written)
                                         ELSE {},
                             previous |-> IF call.op = "loadEnv"
                                          THEN <<call.overrideExisting>>
                                          ELSE <<>>]
         IN  ended(loadEnv(process_env, files, BasePath, EnvKey, DefaultEnv, TestEnvs,
                           overrideExisting, shell))
    /\ pre_env' = process_env
    /\ ncalls' = ncalls + 1
    /\ UNCHANGED <<files, shell>>

NextLoadEnv == CallLoadEnv

SpecLoadEnv == InitLoadEnv /\ [][NextLoadEnv]_vars

\* loadEnv was called and returned normally
Returned == call.op = "loadEnv" /\ call.errName = ""

\* the names NODE_DOTENV_VARS listed when the call started / lists now
ListedAtStart == Range(loadedVarsOf(pre_env))
ListedNow == Range(loadedVarsOf(process_env))

\* the last populated file that defines k (0 when none does)
LastDefining(k) ==
    LET ds == {i \in 1..Len(call.loaded) : k \in Keys(call.loaded[i].values)}
    IN  IF ds = {} THEN 0 ELSE CHOOSE i \in ds : \A j \in ds : j <= i

\* the files of the cascade in the documented order, given the values the
\* environment name took after the base step and after the .local step
Present(p) == IF p \in DOMAIN files THEN <<p>> ELSE <<>>

CascadeOrder(p, testEnvs, envs) ==
    (IF p \in DOMAIN files THEN <<p>> ELSE Present(p \o ".dist"))
    \o (IF envs[1] \in Range(testEnvs) THEN <<>> ELSE Present(p \o ".local"))
    \o (IF envs[2] = "local" THEN <<>>
        ELSE Present(p \o "." \o envs[2]) \o Present(p \o "." \o envs[2] \o ".local"))

PopulatedPaths == [i \in 1..Len(call.loaded) |-> call.loaded[i].path]

\* C2 as stated: a key that is set and not listed in NODE_DOTENV_VARS when
\* loadEnv starts without override has the same value when loadEnv returns.
C2_AsStated ==
    (Returned /\ ~call.overrideExisting) =>
        \A k \in DOMAIN pre_env \ ListedAtStart :
            IsSet(process_env, k) /\ process_env[k] = pre_env[k]

\* the files were populated in the documented order, each only when present
PopulatedInOrder == PopulatedPaths = CascadeOrder(BasePath, TestEnvs, call.envs)

\* C3 as stated: the files are populated in the documented order, and a key
\* that was unset before the call (or any key under override) ends with the
\* value given by the last populated file that defines it.
C3_AsStated ==
    Returned =>
        /\ PopulatedInOrder
        /\ \A k \in UNION {Keys(call.loaded[i].values) : i \in 1..Len(call.loaded)} :
              (~IsSet(pre_env, k) \/ call.overrideExisting) =>
                  process_env[k] = ValueOf(call.loaded[LastDefining(k)].values, k)

\* none of the files this call populated assigns NODE_DOTENV_VARS
NoFileAssignsList ==
    \A i \in 1..Len(call.loaded) : SENTINEL_VARS \notin Keys(call.loaded[i].values)

----------------------------------------------------------------------------
(* SpecParse: parse is called once on a text built around one reference   *)
(* to the variable N, in a process whose host environment sets or leaves  *)
(* unset N and NODE_DOTENV_VARS.  parse changes neither process.env nor   *)
(* anything that outlives the call, so one call per run covers them all.  *)
(* The text is                                                             *)
(*     N=<earlier[1]> ... N=<earlier[n]>                                    *)
(*     <target>=<pre><reference>          (within double quotes or bare)   *)
(*     N=<later>                          (when later is not absent)       *)

NAME == "N"
Absent == "(absent)"

ParseInputs ==
    [earlier : {<<>>, <<"1">>, <<"">>, <<"1", "2">>},
     target : {"R", NAME},
     pre : {"", "x"},
     quoted : BOOLEAN,
     ref : {[brace |-> b, mod |-> "", D |-> ""] : b \in BOOLEAN}
           \cup [brace : {TRUE}, mod : {":-", ":="}, D : {"d", "", "a$b"}],
     later : {Absent, "3"}]

RECURSIVE EarlierText(_)
EarlierText(earlier) ==
    IF earlier = <<>> THEN ""
    ELSE NAME \o "=" \o Head(earlier) \o "\n" \o EarlierText(Tail(earlier))

RefText(ref) ==
    IF ref.mod = "" THEN (IF ref.brace THEN "${" \o NAME \o "}" ELSE "$" \o NAME)
    ELSE "${" \o NAME \o ref.mod \o ref.D \o "}"

ParseText(in) ==
    EarlierText(in.earlier)
    \o in.target \o "="
    \o (IF in.quoted THEN "\"" ELSE "") \o in.pre \o RefText(in.ref)
    \o (IF in.quoted THEN "\"" ELSE "")
    \o (IF in.later = Absent THEN "" ELSE "\n" \o NAME \o "=" \o in.later)

ParseHostEnvs ==
    {Merge2(n, l) : n \in EnvsOver({NAME}, {"h", ""}),
                    l \in EnvsOver({SENTINEL_VARS}, {NAME})}

InitParse ==
    /\ process_env \in ParseHostEnvs
    /\ files = <<>>
    /\ shell = NoShell
    /\ call = NoCall
    /\ pre_env = <<>>
    /\ ncalls = 0

CallParse ==
    /\ call = NoCall
    /\ \E in \in ParseInputs :
         LET returned(P) ==
                 call' = [op |-> "parse", in |-> in, data |-> P.data,
                          err |-> P.err, values |-> P.values]
         IN  returned(parse(ParseText(in), process_env, shell))
    /\ pre_env' = process_env
    /\ ncalls' = ncalls + 1
    /\ UNCHANGED <<process_env, files, shell>>

NextParse == CallParse

SpecParse == InitParse /\ [][NextParse]_vars

\* parse was called and returned a map
Parsed == call.op = "parse" /\ call.err = ""

\* the value the lines before the reference assigned to N, if any
AssignedEarlier == call.in.earlier # <<>>
EarlierValue == call.in.earlier[Len(call.in.earlier)]

\* the precedence the claims state for the value of a reference to N
LookedUp ==
    IF NAME \in Range(loadedVarsOf(process_env)) /\ AssignedEarlier THEN EarlierValue
    ELSE IF IsSet(process_env, NAME) THEN process_env[NAME]
    ELSE IF AssignedEarlier THEN EarlierValue
    ELSE ""

\* the line holding the reference gave the target its final value
TargetKept == ~(call.in.target = NAME /\ call.in.later # Absent)

\* C8: a reference $N or ${N} expands to the value assigned to N earlier in
\* the parse when N is listed in NODE_DOTENV_VARS and was assigned, otherwise
\* to process.env[N] when set, otherwise to the value assigned earlier,
\* otherwise to the empty string.
C8_LookupPrecedence ==
    (Parsed /\ call.in.ref.mod = "" /\ TargetKept) =>
        ValueOf(call.values, call.in.target) = call.in.pre \o LookedUp

\* a listed N with an earlier value that differs from the host's value
C8_Witness ==
    /\ Parsed
    /\ call.in.ref.mod = ""
    /\ TargetKept
    /\ NAME \in Range(loadedVarsOf(process_env))
    /\ AssignedEarlier
    /\ IsSet(process_env, NAME)
    /\ process_env[NAME] # EarlierValue
    /\ ValueOf(call.values, call.in.target) = call.in.pre \o EarlierValue

\* the reference carries a default
HasDefault == call.in.ref.mod \in {":-", ":="}

\* the target got <pre> followed by the default when the looked-up value is
\* empty and by the looked-up value otherwise
ExpandsToDefaultWhenEmpty ==
    ValueOf(call.values, call.in.target)
        = call.in.pre \o (IF LookedUp = "" THEN call.in.ref.D ELSE LookedUp)

\* the returned map holds for N what the lines before the reference gave it
MapUntouched ==
    IF AssignedEarlier
    THEN NAME \in Keys(call.values) /\ ValueOf(call.values, NAME) = EarlierValue
    ELSE NAME \notin Keys(call.values)

\* the returned map holds N = D
MapHoldsDefault ==
    NAME \in Keys(call.values) /\ ValueOf(call.values, NAME) = call.in.ref.D

\* C9 as stated: ${N:-D} expands to D when the looked-up value is empty and
\* to the looked-up value otherwise, and leaves the value map alone;
\* ${N:=D} with an empty looked-up value expands to D and the returned map
\* contains N = D unless a later line reassigns N; with a non-empty
\* looked-up value neither modifier changes anything.
C9_AsStated ==
    (Parsed /\ HasDefault) =>
        /\ TargetKept => ExpandsToDefaultWhenEmpty
        /\ (call.in.ref.mod = ":=" /\ LookedUp = "" /\ call.in.later = Absent)
               => MapHoldsDefault
        /\ ((call.in.ref.mod = ":-" \/ LookedUp # "")
               /\ call.in.later = Absent /\ call.in.target # NAME)
               => MapUntouched

\* C9 amended: as C9, except that the returned map contains N = D unless the
\* line that holds the expansion, or a later line, assigns N.
C9_DefaultStoredUnlessAssigned ==
    (Parsed /\ HasDefault) =>
        /\ TargetKept => ExpandsToDefaultWhenEmpty
        /\ (call.in.ref.mod = ":=" /\ LookedUp = "" /\ call.in.later = Absent
               /\ call.in.target # NAME)
               => MapHoldsDefault
        /\ ((call.in.ref.mod = ":-" \/ LookedUp # "")
               /\ call.in.later = Absent /\ call.in.target # NAME)
               => MapUntouched

\* ${N:=d} met an empty looked-up value although an earlier line assigned N,
\* and the returned map holds N = d
C9_Witness ==
    /\ Parsed
    /\ call.in.ref.mod = ":="
    /\ call.in.ref.D = "d"
    /\ AssignedEarlier
    /\ LookedUp = ""
    /\ call.in.later = Absent
    /\ call.in.target # NAME
    /\ MapHoldsDefault
    /\ ExpandsToDefaultWhenEmpty

----------------------------------------------------------------------------
(* Configuration trees (src/src/index.ts)                                  *)
(*                                                                         *)
(* A JavaScript value is a record [t, v]: t names its kind and v holds its *)
(* content: the characters of a "string", the integer of a "number", the   *)
(* BOOLEAN of a "boolean", the elements of an "array" as a sequence, and   *)
(* the own properties of a plain "object" as the sequence of <<key, value>>*)
(* pairs that Object.entries lists.  An "instance" is an object of a user  *)
(* class: typeof "object", but no plain object.  Keys are ordinary names   *)
(* or array indices; no key is a property of Object.prototype.             *)

Undefined == [t |-> "undefined", v |-> ""]
Null == [t |-> "null", v |-> ""]
NaN == [t |-> "NaN", v |-> ""]
Str(s) == [t |-> "string", v |-> s]
Num(n) == [t |-> "number", v |-> n]
Bool(b) == [t |-> "boolean", v |-> b]
Arr(items) == [t |-> "array", v |-> items]
Obj(entries) == [t |-> "object", v |-> entries]

\* the value of a run of decimal digits
RECURSIVE ParseDigits(_, _)
ParseDigits(s, acc) ==
    IF s = "" THEN acc
    ELSE ParseDigits(SliceFrom(s, 1),
                     acc * 10 + (CHOOSE d \in 0..9 : At("0123456789", d) = At(s, 0)))

\* a property key that is an array index ("0", "7", "10", not "07"):
\* own properties with such keys are listed first, in ascending numeric order
IsIndexKey(k) ==
    /\ Len(k) > 0
    /\ RunLen(k, 0, DigitChars) = Len(k)
    /\ (Len(k) = 1 \/ At(k, 0) # "0")

\* obj[k] = value on an ordinary object: an existing key keeps its place, a
\* new array index goes among the indices in numeric order, and any other
\* new key goes last
SetProperty(entries, k, value) ==
    IF k \in Keys(entries)
    THEN [entries EXCEPT ![Lookup(entries, k)] = <<k, value>>]
    ELSE IF IsIndexKey(k)
    THEN LET insertAfter(n) ==
                 SubSeq(entries, 1, n) \o <<<<k, value>>>>
                 \o SubSeq(entries, n + 1, Len(entries))
         IN  insertAfter(Cardinality(
                 {i \in 1..Len(entries) :
                     /\ IsIndexKey(entries[i][1])
                     /\ ParseDigits(entries[i][1], 0) < ParseDigits(k, 0)}))
    ELSE Append(entries, <<k, value>>)

\* isPlainObject(value)
isPlainObject(value) == value.t = "object"

RECURSIVE cloneValue(_)
RECURSIVE cloneEntries(_, _, _)

\* cloneValue(value)
cloneValue(value) ==
    IF value.t = "array"
    THEN Arr([i \in 1..Len(value.v) |-> cloneValue(value.v[i])])
    ELSE IF isPlainObject(value)
    THEN Obj(cloneEntries(value.v, 1, <<>>))
    ELSE value

\* for (const [k, v] of Object.entries(src)) dst[k] = cloneValue(v), from entry i
cloneEntries(src, i, dst) ==
    IF i > Len(src) THEN dst
    ELSE cloneEntries(src, i + 1, SetProperty(dst, src[i][1], cloneValue(src[i][2])))

RECURSIVE mergeValues(_, _)
RECURSIVE mergeEntries(_, _, _, _)

\* mergeValues(base, next)
mergeValues(base, next) ==
    IF next = Undefined THEN cloneValue(base)
    ELSE IF base = Undefined THEN cloneValue(next)
    ELSE IF base.t = "array" /\ next.t = "array"
    THEN Arr([i \in 1..Len(next.v) |-> cloneValue(next.v[i])])
    ELSE IF isPlainObject(base) /\ isPlainObject(next)
    THEN Obj(mergeEntries(base.v, next.v, 1, cloneEntries(base.v, 1, <<>>)))
    ELSE cloneValue(next)

\* for (const [k, v] of Object.entries(n))
\*     result[k] = k in b ? mergeValues(b[k], v) : cloneValue(v), from entry i
mergeEntries(b, n, i, result) ==
    IF i > Len(n) THEN result
    ELSE mergeEntries(b, n, i + 1,
             SetProperty(result, n[i][1],
                 IF n[i][1] \in Keys(b)
                 THEN mergeValues(ValueOf(b, n[i][1]), n[i][2])
                 ELSE cloneValue(n[i][2])))

----------------------------------------------------------------------------
(* SpecMerge: mergeValues applied to every pair of trees of a small        *)
(* universe: absent, a number, an array, an instance of a class, and the   *)
(* objects of at most MaxKeys properties over ordinary and index keys      *)
(* whose values are absent, a number or a one-property object.             *)

MergeKeys == {"a", "b", "2", "10"}

MergeInner ==
    {Undefined, Num(1), Obj(<<<<"a", Num(1)>>>>), Obj(<<<<"b", Num(2)>>>>)}

\* the order in which an object lists its own properties: array indices
\* ascending, then the other keys (in the order of their creation)
OwnKeyOrder(entries) ==
    \A i, j \in 1..Len(entries) :
        (i < j /\ IsIndexKey(entries[j][1])) =>
            /\ IsIndexKey(entries[i][1])
            /\ ParseDigits(entries[i][1], 0) < ParseDigits(entries[j][1], 0)

MergeTrees ==
    {Undefined, Num(1), Arr(<<Num(2)>>), [t |-> "instance", v |-> "Date"]}
    \cup {Obj(e) : e \in {m \in MapsOver(MergeKeys, MergeInner, MaxKeys) :
                             DistinctKeys(m) /\ OwnKeyOrder(m)}}

InitMerge ==
    /\ process_env = <<>>
    /\ files = <<>>
    /\ shell = NoShell
    /\ call = NoCall
    /\ pre_env = <<>>
    /\ ncalls = 0

CallMergeValues ==
    /\ call = NoCall
    /\ \E base \in MergeTrees, next \in MergeTrees :
         call' = [op |-> "mergeValues", base |-> base, next |-> next,
                  result |-> mergeValues(base, next)]
    /\ pre_env' = process_env
    /\ ncalls' = ncalls + 1
    /\ UNCHANGED <<process_env, files, shell>>

NextMerge == CallMergeValues

SpecMerge == InitMerge /\ [][NextMerge]_vars

\* the keys of a property list, in its order
KeySeq(entries) == [i \in 1..Len(entries) |-> entries[i][1]]

\* C6: mergeValues(base, next) returns a clone of base when next is absent
\* and a clone of next when base is absent; a clone of next when both are
\* arrays; for two plain objects, an object whose keys are base's keys in
\* base's order followed by the keys new in next in next's order, where a
\* key present in both holds the recursive merge and a key present in one
\* holds a clone; in every other case a clone of next.
C6_AsStated ==
    call.op = "mergeValues" =>
        LET holds(base, next, r) ==
                IF next = Undefined THEN r = cloneValue(base)
                ELSE IF base = Undefined THEN r = cloneValue(next)
                ELSE IF base.t = "array" /\ next.t = "array" THEN r = cloneValue(next)
                ELSE IF isPlainObject(base) /\ isPlainObject(next)
                THEN LET New(e) == e[1] \notin Keys(base.v)
                     IN  /\ r.t = "object"
                         /\ KeySeq(r.v) = KeySeq(base.v) \o KeySeq(SelectSeq(next.v, New))
                         /\ \A k \in Keys(r.v) :
                                ValueOf(r.v, k) =
                                    IF k \in Keys(base.v) /\ k \in Keys(next.v)
                                    THEN mergeValues(ValueOf(base.v, k), ValueOf(next.v, k))
                                    ELSE IF k \in Keys(base.v)
                                    THEN cloneValue(ValueOf(base.v, k))
                                    ELSE cloneValue(ValueOf(next.v, k))
                ELSE r = cloneValue(next)
        IN  holds(call.base, call.next, call.result)

----------------------------------------------------------------------------
(* Placeholders: coerceEnvValue, the env accessor and resolvePlaceholders  *)

\* String.prototype.toLowerCase on ASCII letters
RECURSIVE ToLowerCase(_)
ToLowerCase(s) ==
    IF s = "" THEN ""
    ELSE (IF At(s, 0) \in UpperChars
          THEN At("abcdefghijklmnopqrstuvwxyz",
                  CHOOSE i \in 0..25 : At("ABCDEFGHIJKLMNOPQRSTUVWXYZ", i) = At(s, 0))
          ELSE At(s, 0))
         \o ToLowerCase(SliceFrom(s, 1))

\* Number(raw) for the strings the model uses: white space is trimmed, the
\* empty string is 0, an optionally signed run of decimal digits is its value,
\* and anything else is NaN (no ".", exponent, radix prefix or "Infinity"
\* occurs in the model's inputs)
ToNumber(raw) ==
    LET digits(d, sign) ==
            IF d # "" /\ RunLen(d, 0, DigitChars) = Len(d)
            THEN Num(sign * ParseDigits(d, 0)) ELSE NaN
        trimmed(s) ==
            IF s = "" THEN Num(0)
            ELSE IF At(s, 0) = "-" THEN digits(SliceFrom(s, 1), -1)
            ELSE IF At(s, 0) = "+" THEN digits(SliceFrom(s, 1), 1)
            ELSE digits(s, 1)
    IN  trimmed(Trim(raw))

\* String(n) for an integer n
RECURSIVE IntToString(_)
IntToString(n) ==
    IF n < 0 THEN "-" \o IntToString(-n)
    ELSE IF n < 10 THEN At("0123456789", n)
    ELSE IntToString(n \div 10) \o At("0123456789", n % 10)

\* String(coerced) for what coerceEnvValue returns
StringOf(value) ==
    IF value.t = "number" THEN IntToString(value.v)
    ELSE IF value.t = "NaN" THEN "NaN"
    ELSE IF value.t = "boolean" THEN (IF value.v THEN "true" ELSE "false")
    ELSE value.v

\* coerceEnvValue(raw, type); type "" stands for undefined
coerceEnvValue(raw, type) ==
    IF type = "number" THEN ToNumber(raw)
    ELSE IF type = "boolean"
    THEN LET normed(norm) ==
                 IF norm \in {"true", "1", "yes", "y", "on"} THEN Bool(TRUE)
                 ELSE IF norm \in {"false", "0", "no", "n", "off"} THEN Bool(FALSE)
                 ELSE Bool(norm # "")
         IN  normed(ToLowerCase(Trim(raw)))
    ELSE Str(raw)

\* ENV_PLACEHOLDER_ANY tried at index i of s: the length of the match (-1
\* when there is none) and its two groups, rawType ("" when it took no part)
\* and name.  The flag i makes "%env(", the type and the name match in either
\* case.
MatchPlaceholder(s, i) ==
    LET none == [len |-> -1, rawType |-> "", name |-> ""]
        named(from, rawType) ==
            LET run(n) ==
                    IF n > 0 /\ StartsWithAt(s, ")%", from + n)
                    THEN [len |-> from + n + 2 - i, rawType |-> rawType,
                          name |-> Slice(s, from, from + n)]
                    ELSE none
            IN  run(RunLen(s, from, UpperChars \cup DigitChars \cup
                           {"_", "a", "b", "c", "d", "e", "f", "g", "h", "i", "j", "k",
                            "l", "m", "n", "o", "p", "q", "r", "s", "t", "u", "v", "w",
                            "x", "y", "z"}))
        typed(from) ==
            LET T == {t \in {"string", "number", "boolean"} :
                         /\ ToLowerCase(Slice(s, from, from + Len(t))) = t
                         /\ At(s, from + Len(t)) = ":"}
                tried(m) == IF m.len > 0 THEN m ELSE named(from, "")
            IN  IF T = {} THEN named(from, "")
                ELSE tried(named(from + Len(CHOOSE t \in T : TRUE) + 1,
                                 Slice(s, from, from + Len(CHOOSE t \in T : TRUE))))
    IN  IF ToLowerCase(Slice(s, i, i + 5)) = "%env(" /\ i + 5 <= Len(s)
        THEN typed(i + 5) ELSE none

\* accessorRead that registers nothing
accessorRead_forgets(env, registered, name) ==
    [value |-> IF IsSet(env, name) THEN Str(env[name]) ELSE Undefined,
     err |-> IF IsSet(env, name) THEN ""
             ELSE "Missing environment variable: " \o name,
     registered |-> registered]

\* accessor(name), the read function of createEnvAccessor: the name is
\* registered, and a variable that is not set throws an Error.  A result
\* is what came back (value), the message of what was thrown (err, "" when
\* nothing was) and the accessor's registered names.
accessorRead(env, registered, name) ==
    [value |-> IF IsSet(env, name) THEN Str(env[name]) ELSE Undefined,
     err |-> IF IsSet(env, name) THEN ""
             ELSE "Missing environment variable: " \o name,
     registered |-> registered \cup {name}]

\* value.replace whose scan goes on inside the text a callback returned
RECURSIVE interpolate_rescans(_, _, _, _, _)
interpolate_rescans(s, i, out, env, registered) ==
    IF i >= Len(s) THEN [value |-> Str(out), err |-> "", registered |-> registered]
    ELSE LET matched(m) ==
                 IF m.len < 0
                 THEN interpolate_rescans(s, i + 1, out \o At(s, i), env, registered)
                 ELSE LET read(raw) ==
                              IF raw.err # "" THEN raw
                              ELSE interpolate_rescans(
                                       Slice(s, 0, i)
                                       \o StringOf(coerceEnvValue(
                                              raw.value.v, ToLowerCase(m.rawType)))
                                       \o SliceFrom(s, i + m.len),
                                       i, out, env, raw.registered)
                      IN  read(accessorRead(env, registered, m.name))
         IN  matched(MatchPlaceholder(s, i))

\* value.replace(ENV_PLACEHOLDER_ANY, callback) from index i, out being the
\* text produced so far
RECURSIVE interpolate(_, _, _, _, _)
interpolate(s, i, out, env, registered) ==
    IF i >= Len(s) THEN [value |-> Str(out), err |-> "", registered |-> registered]
    ELSE LET matched(m) ==
                 IF m.len < 0
                 THEN interpolate(s, i + 1, out \o At(s, i), env, registered)
                 ELSE LET read(raw) ==
                              IF raw.err # "" THEN raw
                              ELSE interpolate(s, i + m.len,
                                       out \o StringOf(coerceEnvValue(
                                                  raw.value.v, ToLowerCase(m.rawType))),
                                       env, raw.registered)
                      IN  read(accessorRead(env, registered, m.name))
         IN  matched(MatchPlaceholder(s, i))

RECURSIVE resolvePlaceholders(_, _, _)
RECURSIVE resolveEach(_, _, _, _, _, _)

\* resolvePlaceholders without the ENV_PLACEHOLDER_FULL branch: a string that
\* is one placeholder is interpolated like any other
resolvePlaceholders_alwaysInterpolates(value, env, registered) ==
    IF value.t = "string" THEN interpolate(value.v, 0, "", env, registered)
    ELSE IF value.t = "array" \/ isPlainObject(value)
    THEN resolveEach(value.t, value.v, 1, <<>>, env, registered)
    ELSE [value |-> value, err |-> "", registered |-> registered]

\* resolvePlaceholders(value, accessor) with process.env = env and the
\* accessor's registered names
resolvePlaceholders(value, env, registered) ==
    IF value.t = "string"
    THEN LET full(m) ==
                 IF m.len = Len(value.v) /\ m.len > 0
                 THEN LET read(raw) ==
                              IF raw.err # "" THEN raw
                              ELSE [raw EXCEPT !.value =
                                       coerceEnvValue(raw.value.v, ToLowerCase(m.rawType))]
                      IN  read(accessorRead(env, registered, m.name))
                 ELSE interpolate(value.v, 0, "", env, registered)
         IN  full(MatchPlaceholder(value.v, 0))
    ELSE IF value.t = "array" \/ isPlainObject(value)
    THEN resolveEach(value.t, value.v, 1, <<>>, env, registered)
    ELSE [value |-> value, err |-> "", registered |-> registered]

\* the loops of resolvePlaceholders over the elements of an array
\* (out[i] = ...) and over the entries of an object (result[k] = ...)
resolveEach(t, src, i, out, env, registered) ==
    IF i > Len(src)
    THEN [value |-> [t |-> t, v |-> out], err |-> "", registered |-> registered]
    ELSE LET resolved(r) ==
                 IF r.err # "" THEN r
                 ELSE resolveEach(t, src, i + 1,
                          IF t = "array" THEN Append(out, r.value)
                          ELSE SetProperty(out, src[i][1], r.value),
                          env, r.registered)
         IN  resolved(resolvePlaceholders(
                 IF t = "array" THEN src[i] ELSE src[i][2], env, registered))

----------------------------------------------------------------------------
(* SpecResolve: resolvePlaceholders applied to the tree                    *)
(*     { p: "<placeholder>", u: "<pre><placeholder><post><second>" }       *)
(* where <placeholder> reads V with one of the types (or none) and         *)
(* <second>, when present, reads W, in a process that sets or leaves unset *)
(* V and W.                                                                *)

PlaceholderText(rawType, name) ==
    "%env(" \o (IF rawType = "" THEN "" ELSE rawType \o ":") \o name \o ")%"

ResolveInputs ==
    [rawType : {"", "string", "number", "boolean", "NUMBER", "Boolean"},
     pre : {"", "x", "%"},
     post : {"", "y", ")%"},
     second : {Absent, "", "number"}]

ResolveTree(in) ==
    Obj(<< <<"p", Str(PlaceholderText(in.rawType, "V"))>>,
           <<"u", Str(in.pre \o PlaceholderText(in.rawType, "V") \o in.post
                      \o (IF in.second = Absent THEN ""
                          ELSE PlaceholderText(in.second, "W")))>> >>)

ResolveHostEnvs ==
    {Merge2(v, w) :
        v \in EnvsOver({"V"}, {"8080", "08", " 7 ", "abc", "", "-3", "Yes", "off", "0"}),
        w \in EnvsOver({"W"}, {"12"})}

InitResolve ==
    /\ process_env \in ResolveHostEnvs
    /\ files = <<>>
    /\ shell = NoShell
    /\ call = NoCall
    /\ pre_env = <<>>
    /\ ncalls = 0

CallResolvePlaceholders ==
    /\ call = NoCall
    /\ \E in \in ResolveInputs :
         LET ended(r) ==
                 call' = [op |-> "resolvePlaceholders", in |-> in,
                          value |-> r.value, err |-> r.err,
                          registered |-> r.registered]
         IN  ended(resolvePlaceholders(ResolveTree(in), process_env, {}))
    /\ pre_env' = process_env
    /\ ncalls' = ncalls + 1
    /\ UNCHANGED <<process_env, files, shell>>

NextResolve == CallResolvePlaceholders

SpecResolve == InitResolve /\ [][NextResolve]_vars

\* C7: a string whose entire content is exactly one placeholder resolves to
\* the coerced native value (a number for number:, a boolean for boolean:,
\* the raw string for string: or no type); a longer string with placeholders
\* embedded resolves to a string in which every placeholder is replaced by
\* the string form of its coerced value and the surrounding text is retained.
C7_NativeWhenWholeElseText ==
    (call.op = "resolvePlaceholders" /\ call.err = "") =>
        LET holds(in, env, p, u) ==
                LET type == ToLowerCase(in.rawType)
                    whole == in.pre = "" /\ in.post = "" /\ in.second = Absent
                IN  /\ type = "number" => p.t \in {"number", "NaN"}
                    /\ type = "boolean" => p.t = "boolean"
                    /\ type \in {"", "string"} => p = Str(env["V"])
                    /\ p = coerceEnvValue(env["V"], type)
                    /\ whole => u = p
                    /\ ~whole =>
                          u = Str(in.pre \o StringOf(coerceEnvValue(env["V"], type))
                                  \o in.post
                                  \o (IF in.second = Absent THEN ""
                                      ELSE StringOf(coerceEnvValue(
                                               env["W"], in.second))))
        IN  holds(call.in, pre_env,
                  ValueOf(call.value.v, "p"), ValueOf(call.value.v, "u"))

\* number:V with V = "08" resolved to the number 8 where it is the whole
\* string and to the text "x8y" where it is embedded in "x...y"
C7_Witness ==
    /\ call.op = "resolvePlaceholders"
    /\ call.err = ""
    /\ call.in.rawType = "number"
    /\ call.in.pre = "x"
    /\ call.in.post = "y"
    /\ call.in.second = Absent
    /\ pre_env["V"] = "08"
    /\ ValueOf(call.value.v, "p") = Num(8)
    /\ ValueOf(call.value.v, "u") = Str("x8y")

----------------------------------------------------------------------------
(* defineConfig and what it calls (src/src/index.ts)                       *)
(*                                                                         *)
(* A run of defineConfig is a record R: process.env (env), the names the   *)
(* accessor has registered, what was thrown (errName and err, "" while     *)
(* nothing was; issues for a ConfigValidationError), the config returned,  *)
(* and, for observation, the trees merged so far (layers: what             *)
(* resolveSource gave for each source that gave one), the accumulator      *)
(* (merged) and the tree handed to the validator (resolved).               *)

\* process.cwd()
Cwd == "/app"

\* path.resolve(cwd, p) for an absolute cwd and a p without "." or ".." segments
pathResolve(cwd, p) == IF At(p, 0) = "/" THEN p ELSE cwd \o "/" \o p

\* the values that count as true in `if (value)`
Truthy(value) == value \notin {Undefined, Null, NaN, Bool(FALSE), Num(0), Str("")}

\* schema.safeParse(value) for the validators of the model: z.any(),
\* z.never() and z.object({ port: z.number() }), which drops the other keys
safeParse(schema, value) ==
    LET rejected(path) ==
            [success |-> FALSE, data |-> Undefined,
             error |-> <<[code |-> "invalid_type", path |-> path]>>]
    IN  IF schema.v = "any" THEN [success |-> TRUE, data |-> value, error |-> <<>>]
        ELSE IF schema.v = "never" \/ value.t # "object" THEN rejected(<<>>)
        ELSE IF "port" \in Keys(value.v) /\ ValueOf(value.v, "port").t = "number"
        THEN [success |-> TRUE, error |-> <<>>,
              data |-> Obj(<<<<"port", ValueOf(value.v, "port")>>>>)]
        ELSE rejected(<<"port">>)

\* normalizeEnvOptions(input): input is false, true, undefined or a record of
\* some of the options; null is [enabled |-> FALSE]
normalizeEnvOptions(input) ==
    LET defaults == [enabled |-> TRUE, defaultEnv |-> "dev", envKey |-> "NODE_ENV",
                     optional |-> TRUE, overrideExisting |-> FALSE, path |-> ".env",
                     testEnvs |-> <<"test">>, environment |-> "", knownKeys |-> <<>>]
    IN  IF input = Bool(FALSE) THEN [enabled |-> FALSE]
        ELSE IF input = Undefined \/ input = Bool(TRUE) THEN defaults
        ELSE IF "enabled" \in DOMAIN input.v /\ ~input.v.enabled THEN [enabled |-> FALSE]
        ELSE [f \in DOMAIN defaults |->
                 IF f \in DOMAIN input.v /\ f # "enabled" THEN input.v[f] ELSE defaults[f]]

\* extractLoadedEnvKeys(): fastSplitCommaSet(process.env.NODE_DOTENV_VARS)
extractLoadedEnvKeys(env) ==
    IF IsSet(env, SENTINEL_VARS)
    THEN {Trim(t) : t \in Range(SplitComma(env[SENTINEL_VARS]))} \ {""}
    ELSE {}

\* loadEnvFiles whose catch swallows whatever loadEnv throws when optional
loadEnvFiles_swallowsAll(R, options, cwd, fs, sh) ==
    LET loaded(S) ==
            IF Thrown(S) /\ ~options.optional
            THEN [R EXCEPT !.env = S.env, !.errName = S.errName, !.err = S.err]
            ELSE [R EXCEPT !.env = S.env,
                           !.registered = @ \cup extractLoadedEnvKeys(S.env)
                                            \cup {options.envKey}
                                            \cup Range(options.knownKeys)]
    IN  loaded(loadEnv(IF options.environment # ""
                       THEN SetVar(R.env, options.envKey, options.environment)
                       ELSE R.env,
                       fs, pathResolve(cwd, options.path), options.envKey,
                       options.defaultEnv, options.testEnvs,
                       options.overrideExisting, sh))

\* loadEnvFiles(options, cwd, accessor)
loadEnvFiles(R, options, cwd, fs, sh) ==
    LET loaded(S) ==
            IF Thrown(S) /\ ~(options.optional /\ S.errName = "PathError")
            THEN [R EXCEPT !.env = S.env, !.errName = S.errName, !.err = S.err]
            ELSE [R EXCEPT !.env = S.env,
                           !.registered = @ \cup extractLoadedEnvKeys(S.env)
                                            \cup {options.envKey}
                                            \cup Range(options.knownKeys)]
    IN  loaded(loadEnv(IF options.environment # ""
                       THEN SetVar(R.env, options.envKey, options.environment)
                       ELSE R.env,
                       fs, pathResolve(cwd, options.path), options.envKey,
                       options.defaultEnv, options.testEnvs,
                       options.overrideExisting, sh))

\* path.extname(p), searched backwards from index i
RECURSIVE extnameFrom(_, _)
extnameFrom(p, i) ==
    IF i <= 0 \/ At(p, i) = "/" \/ At(p, i - 1) = "/" THEN ""
    ELSE IF At(p, i) = "." THEN SliceFrom(p, i)
    ELSE extnameFrom(p, i - 1)

\* what a step of source loading gives: a tree (Null for nothing) or what it threw
Gave(value) == [value |-> value, errName |-> "", err |-> ""]
Threw(errName, err) == [value |-> Undefined, errName |-> errName, err |-> err]

\* inferFormat(filepath): EXT_TO_FORMAT of the lower-cased extension
inferFormat(filepath) ==
    LET ext(e) ==
            IF e = ".ini" THEN Gave(Str("ini"))
            ELSE IF e = ".json" THEN Gave(Str("json"))
            ELSE IF e \in {".yaml", ".yml"} THEN Gave(Str("yaml"))
            ELSE Threw("ConfigParseError",
                       "Unable to infer configuration format for extension \""
                       \o extnameFrom(filepath, Len(filepath) - 1) \o "\" ("
                       \o filepath \o ")")
    IN  ext(ToLowerCase(extnameFrom(filepath, Len(filepath) - 1)))

\* JSON.parse, YAML.parse and ini.parse on the texts of the model's files:
\* the tree, or Threw when the parser throws
libraryParse(format, text) ==
    IF format \in {"json", "yaml"} /\ text = "{\"a\":{\"b\":3},\"port\":1}"
    THEN Gave(Obj(<< <<"a", Obj(<<<<"b", Num(3)>>>>)>>, <<"port", Num(1)>> >>))
    ELSE IF format \in {"json", "yaml"} /\ text = "[1]" THEN Gave(Arr(<<Num(1)>>))
    ELSE IF format = "yaml" /\ text = "a: 5" THEN Gave(Obj(<<<<"a", Num(5)>>>>))
    ELSE IF format = "ini" /\ text = "a=5" THEN Gave(Obj(<<<<"a", Str("5")>>>>))
    ELSE Threw("SyntaxError", "Unexpected end of input")

\* ensureObject(value, origin)
ensureObject(value, origin) ==
    IF value.t \notin {"object", "instance"}
    THEN Threw("ConfigParseError",
               "Configuration source must resolve to an object (" \o origin \o ")")
    ELSE Gave(cloneValue(value))

\* parseFile(source, cwd) for a source object with a string path
parseFile(source, cwd, fs) ==
    LET prop(k) == IF k \in Keys(source.v) THEN ValueOf(source.v, k) ELSE Undefined
        read(targetPath, format) ==
            IF format.errName # "" THEN format
            ELSE IF ~CanRead(fs, targetPath)
            THEN (IF Truthy(prop("optional")) THEN Gave(Null)
                  ELSE Threw("ConfigFileNotFoundError",
                             "Configuration file not found: " \o targetPath))
            ELSE IF format.value.v \notin {"json", "yaml", "ini"}
            THEN Threw("ConfigParseError",
                       "Unsupported configuration format: " \o format.value.v
                       \o " (" \o targetPath \o ")")
            ELSE LET parsed(r) ==
                         IF r.errName # ""
                         THEN Threw("ConfigParseError",
                                    "Failed to parse configuration file ("
                                    \o targetPath \o ")")
                         ELSE ensureObject(r.value, targetPath)
                 IN  parsed(libraryParse(format.value.v, fs[targetPath].text))
        at(targetPath) ==
            read(targetPath,
                 IF prop("format") \in {Undefined, Null}
                 THEN inferFormat(targetPath) ELSE Gave(prop("format")))
    IN  at(pathResolve(cwd, prop("path").v))

\* isFileSource(value)
isFileSource(value) ==
    /\ value.t = "object"
    /\ "path" \in Keys(value.v)
    /\ ValueOf(value.v, "path").t = "string"

\* resolveSource(source, cwd)
resolveSource(source, cwd, fs) ==
    IF source.t = "string" THEN parseFile(Obj(<<<<"path", source>>>>), cwd, fs)
    ELSE IF isFileSource(source) THEN parseFile(source, cwd, fs)
    ELSE IF ~isPlainObject(source)
    THEN Threw("ConfigError", "Inline configuration sources must be plain objects.")
    ELSE Gave(cloneValue(source))

\* normalizeSources(sources): the list as a sequence
normalizeSources(sources) ==
    IF ~Truthy(sources) THEN <<>>
    ELSE IF sources.t = "array" THEN sources.v
    ELSE <<sources>>

\* a run of defineConfig that has not started
NoRun(env) ==
    [env |-> env, registered |-> {}, errName |-> "", err |-> "", issues |-> <<>>,
     config |-> Undefined, layers |-> <<>>, merged |-> Undefined,
     resolved |-> Undefined]

\* const accessor = createEnvAccessor(envOptions.knownKeys);
\* if (envOptions.enabled) loadEnvFiles(envOptions, cwd, accessor)
createAccessor(env, fs, envOptions, sh) ==
    IF envOptions.enabled
    THEN loadEnvFiles([NoRun(env) EXCEPT !.registered =
                           Range(envOptions.knownKeys) \cup DOMAIN env],
                      envOptions, Cwd, fs, sh)
    ELSE [NoRun(env) EXCEPT !.registered = DOMAIN env]

\* for (const source of sources) { parsed = resolveSource(source, cwd);
\* if (parsed) merged = mergeValues(parsed, merged) }: the first layer wins
RECURSIVE mergeSources_firstWins(_, _, _, _, _)
mergeSources_firstWins(R, sources, i, cwd, fs) ==
    IF i > Len(sources) THEN R
    ELSE LET parsed(r) ==
                 IF r.errName # ""
                 THEN [R EXCEPT !.errName = r.errName, !.err = r.err]
                 ELSE IF r.value = Null
                 THEN mergeSources_firstWins(R, sources, i + 1, cwd, fs)
                 ELSE mergeSources_firstWins(
                          [R EXCEPT !.merged = mergeValues(r.value, @),
                                    !.layers = Append(@, r.value)],
                          sources, i + 1, cwd, fs)
         IN  parsed(resolveSource(sources[i], cwd, fs))

\* for (const source of sources) { parsed = resolveSource(source, cwd);
\* if (parsed) merged = mergeValues(merged, parsed) }, from source i
RECURSIVE mergeSources(_, _, _, _, _)
mergeSources(R, sources, i, cwd, fs) ==
    IF i > Len(sources) THEN R
    ELSE LET parsed(r) ==
                 IF r.errName # ""
                 THEN [R EXCEPT !.errName = r.errName, !.err = r.err]
                 ELSE IF r.value = Null THEN mergeSources(R, sources, i + 1, cwd, fs)
                 ELSE mergeSources([R EXCEPT !.merged = mergeValues(@, r.value),
                                             !.layers = Append(@, r.value)],
                                   sources, i + 1, cwd, fs)
         IN  parsed(resolveSource(sources[i], cwd, fs))

\* defineConfig that returns the resolved tree whatever the validator says
defineConfig_unvalidated(env, fs, options, sh) ==
    LET resolved(R, r) ==
            IF r.err # ""
            THEN [R EXCEPT !.errName = "Error", !.err = r.err,
                           !.registered = r.registered]
            ELSE [R EXCEPT !.resolved = r.value, !.registered = r.registered,
                           !.config = r.value]
        merged(R) ==
            IF R.errName # "" THEN R
            ELSE resolved(R, resolvePlaceholders(R.merged, R.env, R.registered))
        sourced(R) ==
            IF R.errName # "" THEN R
            ELSE IF Truthy(options.defaults) /\ ~isPlainObject(options.defaults)
            THEN [R EXCEPT !.errName = "ConfigError",
                           !.err = "Default configuration must be a plain object."]
            ELSE merged(mergeSources(
                     [R EXCEPT !.merged = IF Truthy(options.defaults)
                                          THEN cloneValue(options.defaults)
                                          ELSE Obj(<<>>)],
                     normalizeSources(options.sources), 1, Cwd, fs))
    IN  IF ~Truthy(options.schema)
        THEN [NoRun(env) EXCEPT !.errName = "ConfigError",
                  !.err = "A Zod schema is required to load configuration."]
        ELSE sourced(createAccessor(env, fs, normalizeEnvOptions(options.env), sh))

\* defineConfig(options) with process.env = env, the filesystem fs and
\* process.cwd() = Cwd
defineConfig(env, fs, options, sh) ==
    LET validated(R, validation) ==
            IF ~validation.success
            THEN [R EXCEPT !.errName = "ConfigValidationError",
                           !.err = "Configuration validation failed:",
                           !.issues = validation.error]
            ELSE [R EXCEPT !.config = validation.data]
        resolved(R, r) ==
            IF r.err # ""
            THEN [R EXCEPT !.errName = "Error", !.err = r.err,
                           !.registered = r.registered]
            ELSE validated([R EXCEPT !.resolved = r.value,
                                     !.registered = r.registered],
                           safeParse(options.schema, r.value))
        merged(R) ==
            IF R.errName # "" THEN R
            ELSE resolved(R, resolvePlaceholders(R.merged, R.env, R.registered))
        sourced(R) ==
            IF R.errName # "" THEN R
            ELSE IF Truthy(options.defaults) /\ ~isPlainObject(options.defaults)
            THEN [R EXCEPT !.errName = "ConfigError",
                           !.err = "Default configuration must be a plain object."]
            ELSE merged(mergeSources(
                     [R EXCEPT !.merged = IF Truthy(options.defaults)
                                          THEN cloneValue(options.defaults)
                                          ELSE Obj(<<>>)],
                     normalizeSources(options.sources), 1, Cwd, fs))
    IN  IF ~Truthy(options.schema)
        THEN [NoRun(env) EXCEPT !.errName = "ConfigError",
                  !.err = "A Zod schema is required to load configuration."]
        ELSE sourced(createAccessor(env, fs, normalizeEnvOptions(options.env), sh))

----------------------------------------------------------------------------
(* SpecConfig: one call of defineConfig in a project directory /app that   *)
(* may hold .env, c.json and c.yaml, in a process that sets PORT or not.   *)
(* The options are either layered (no env loading, z.any(), defaults and   *)
(* up to MaxSources sources, inline or files) or validated (any schema or  *)
(* none, env loading on or off, at most one source).                       *)

ConfigHostEnvs == EnvsOver({"PORT"}, {"8080", "x"})

ConfigFiles ==
    {Merge2(Merge2(d, j), y) :
        d \in EnvsOver({"/app/.env"}, {File("PORT=9")}),
        j \in EnvsOver({"/app/c.json"},
                       {File("{\"a\":{\"b\":3},\"port\":1}"), File("[1]")}),
        y \in [{"/app/c.yaml"} -> {File("a: 5")}]}

Schemas == {[t |-> "schema", v |-> n] : n \in {"any", "never", "port"}}

LayerSources ==
    {Obj(<<<<"a", Obj(<<<<"b", Num(2)>>>>)>>>>),
     Obj(<<<<"a", Num(5)>>>>),
     Obj(<<<<"a", Obj(<< <<"b", Undefined>>, <<"c", Arr(<<Num(1)>>)>> >>)>>>>),
     Str("c.json"),
     Obj(<< <<"path", Str("missing.json")>>, <<"optional", Bool(TRUE)>> >>),
     Obj(<<<<"path", Str("/app/c.yaml")>>>>)}

ConfigOptions ==
    [schema : {[t |-> "schema", v |-> "any"]},
     env : {Bool(FALSE)},
     defaults : {Undefined, Arr(<<>>),
                 Obj(<< <<"a", Obj(<<<<"b", Num(1)>>>>)>>, <<"port", Num(1)>> >>)},
     sources : {Undefined} \cup LayerSources
               \cup {Arr(l) : l \in UNION {[1..n -> LayerSources] : n \in 0..MaxSources}}]
    \cup
    [schema : {Undefined} \cup Schemas,
     env : {Bool(FALSE), Undefined,
            [t |-> "options", v |-> [optional |-> FALSE, overrideExisting |-> TRUE]]},
     defaults : {Undefined},
     sources : {Undefined, Str("c.txt"), Str("c.json"),
                Obj(<< <<"path", Str("c.txt")>>, <<"optional", Bool(TRUE)>> >>),
                Obj(<<<<"port", Str("%env(number:PORT)%")>>>>)}]

InitConfig ==
    /\ process_env \in ConfigHostEnvs
    /\ files \in ConfigFiles
    /\ shell = NoShell
    /\ call = NoCall
    /\ pre_env = <<>>
    /\ ncalls = 0

CallDefineConfig ==
    /\ call = NoCall
    /\ \E options \in ConfigOptions :
         LET ended(R) ==
                 /\ process_env' = R.env
                 /\ call' = [op |-> "defineConfig", options |-> options, run |-> R]
         IN  ended(defineConfig(process_env, files, options, shell))
    /\ pre_env' = process_env
    /\ ncalls' = ncalls + 1
    /\ UNCHANGED <<files, shell>>

SpecConfig == InitConfig /\ [][CallDefineConfig]_vars

\* C4: defineConfig returns a result only when schema.safeParse accepts the
\* merged and placeholder-resolved tree, and then config is exactly the data
\* the validator returned; when the validator rejects, defineConfig raises
\* ConfigValidationError carrying the validator's issues and returns nothing;
\* a missing schema raises ConfigError before any other step (process.env,
\* the accessor and the sources are untouched).
C4_ValidatorGatesResult ==
    call.op = "defineConfig" =>
        LET judged(R, validation) ==
                /\ R.errName = "" =>
                      /\ R.resolved =
                             resolvePlaceholders(R.merged, process_env, {}).value
                      /\ validation.success
                      /\ R.config = validation.data
                /\ (R.resolved # Undefined /\ ~validation.success) =>
                      /\ R.errName = "ConfigValidationError"
                      /\ R.issues = validation.error
                      /\ R.config = Undefined
                /\ R.errName = "ConfigValidationError" =>
                      R.resolved # Undefined /\ ~validation.success
            holds(options, R) ==
                IF ~Truthy(options.schema)
                THEN /\ R.errName = "ConfigError"
                     /\ R.config = Undefined
                     /\ process_env = pre_env
                     /\ R.registered = {}
                     /\ R.layers = <<>>
                ELSE judged(R, safeParse(options.schema, R.resolved))
        IN  holds(call.options, call.run)

\* z.object({ port: z.number() }) rejected the resolved tree, whose port is
\* NaN (PORT = "x" read through %env(number:PORT)%), and defineConfig raised
\* ConfigValidationError with the validator's issue
C4_Witness ==
    /\ call.op = "defineConfig"
    /\ call.options.schema = [t |-> "schema", v |-> "port"]
    /\ call.run.resolved = Obj(<<<<"port", NaN>>>>)
    /\ call.run.errName = "ConfigValidationError"
    /\ call.run.issues = <<[code |-> "invalid_type", path |-> <<"port">>]>>
    /\ call.run.config = Undefined

\* tree.k1.k2...: the value at a path of keys, Undefined when there is none
RECURSIVE GetPath(_, _)
GetPath(tree, path) ==
    IF path = <<>> THEN tree
    ELSE IF tree.t = "object" /\ Head(path) \in Keys(tree.v)
    THEN GetPath(ValueOf(tree.v, Head(path)), Tail(path))
    ELSE Undefined

\* the paths the layers of SpecConfig can define
ConfigPaths ==
    UNION {[1..n -> {"a", "b", "c", "port"}] : n \in 1..2}

\* defineConfig got as far as merging every source
MergedAll ==
    /\ call.op = "defineConfig"
    /\ call.run.merged # Undefined
    /\ call.run.errName
           \notin {"ConfigError", "ConfigParseError", "ConfigFileNotFoundError"}

\* the layers of the call in the order defaults, source 1, ..., source n
Layers ==
    (IF Truthy(call.options.defaults) THEN <<call.options.defaults>> ELSE <<>>)
    \o call.run.layers

\* the layers that give the path a value that is no object
DefinedBy(path) ==
    {i \in 1..Len(Layers) :
        GetPath(Layers[i], path) # Undefined /\ GetPath(Layers[i], path).t # "object"}

\* the accumulator is a clone of defaults (or {}) merged with the trees of
\* the sources in list order
MergedInListOrder ==
    LET src == normalizeSources(call.options.sources)
        given == [i \in 1..Len(src) |-> resolveSource(src[i], Cwd, files).value]
        Tree(v) == v # Null
        RECURSIVE fold(_, _)
        fold(acc, rest) ==
            IF rest = <<>> THEN acc ELSE fold(mergeValues(acc, Head(rest)), Tail(rest))
    IN  /\ call.run.layers = SelectSeq(given, Tree)
        /\ call.run.merged =
               fold(IF Truthy(call.options.defaults)
                    THEN cloneValue(call.options.defaults) ELSE Obj(<<>>),
                    call.run.layers)

\* C5 (as stated): defineConfig starts from a clone of defaults (or an empty
\* object) and merges the sources strictly in list order; for every path that
\* several layers define with a non-object value, the merged tree holds the
\* value of the last layer, in the order defaults, source 1, ..., source n,
\* that defines it.
C5_AsStated ==
    MergedAll =>
        /\ MergedInListOrder
        /\ \A path \in ConfigPaths :
               Cardinality(DefinedBy(path)) >= 2 =>
                   GetPath(call.run.merged, path) =
                       GetPath(Layers[CHOOSE i \in DefinedBy(path) :
                                          \A j \in DefinedBy(path) : j <= i], path)

\* C5 (amended): the same, unless a layer after the last one that gives the
\* path a non-object value gives a non-object value to a proper prefix of the
\* path or an object to the path itself; this holds for every path that some
\* layer defines with a non-object value.
C5_LastLayerWinsUnlessReplaced ==
    MergedAll =>
        /\ MergedInListOrder
        /\ \A path \in ConfigPaths :
               LET last == CHOOSE i \in DefinedBy(path) :
                               \A j \in DefinedBy(path) : j <= i
                   Replaces(j) ==
                       \/ GetPath(Layers[j], path) # Undefined
                       \/ \E n \in 1..(Len(path) - 1) :
                              /\ GetPath(Layers[j], SubSeq(path, 1, n)) # Undefined
                              /\ GetPath(Layers[j], SubSeq(path, 1, n)).t # "object"
               IN  (DefinedBy(path) # {}
                      /\ \A j \in (last + 1)..Len(Layers) : ~Replaces(j)) =>
                       GetPath(call.run.merged, path) = GetPath(Layers[last], path)

\* defaults, c.json and an inline source all give a.b a number (1, 3, 2) and
\* the merged tree holds the inline source's 2, the last in list order
C5_Witness ==
    /\ MergedAll
    /\ Len(Layers) = 3
    /\ GetPath(Layers[1], <<"a", "b">>) = Num(1)
    /\ GetPath(Layers[2], <<"a", "b">>) = Num(3)
    /\ GetPath(Layers[3], <<"a", "b">>) = Num(2)
    /\ GetPath(call.run.merged, <<"a", "b">>) = Num(2)
    /\ GetPath(call.run.merged, <<"port">>) = Num(1)

\* the sources of the call as a list, and what the loader gives for each
SourceList == normalizeSources(call.options.sources)

Loaded(i) == resolveSource(SourceList[i], Cwd, files)

\* source i names a file (a path string or a file record) that is absent
AbsentFile(i) ==
    LET absent(s) ==
            IF s.t = "string" THEN ~CanRead(files, pathResolve(Cwd, s.v))
            ELSE /\ isFileSource(s)
                 /\ ~CanRead(files, pathResolve(Cwd, ValueOf(s.v, "path").v))
    IN  absent(SourceList[i])

\* source i is a file record with optional: true
IsOptional(i) ==
    LET optional(s) ==
            /\ s.t = "object"
            /\ "optional" \in Keys(s.v)
            /\ ValueOf(s.v, "optional") = Bool(TRUE)
    IN  optional(SourceList[i])

\* defineConfig reached the loop over the sources
ReachedSources == call.op = "defineConfig" /\ call.run.merged # Undefined

\* C13 (as stated): for a file source whose file is absent, if optional is
\* true the loader returns nothing and defineConfig continues with the
\* remaining sources without raising; otherwise ConfigFileNotFoundError is
\* raised.
C13_AsStated ==
    ReachedSources =>
        \A i \in 1..Len(SourceList) :
            (AbsentFile(i) /\ \A j \in 1..(i - 1) : Loaded(j).errName = "") =>
                IF IsOptional(i)
                THEN /\ Loaded(i) = Gave(Null)
                     /\ (\A j \in (i + 1)..Len(SourceList) : Loaded(j).errName = "")
                            => call.run.errName
                                   \notin {"ConfigError", "ConfigParseError",
                                           "ConfigFileNotFoundError"}
                ELSE call.run.errName = "ConfigFileNotFoundError"

----------------------------------------------------------------------------
(* SpecConfigEnv: one call of defineConfig with env loading on, in a       *)
(* project directory whose cascade files .env, .env.dist and .env.dev are  *)
(* absent, well formed or malformed, with z.any() and at most one source.  *)

ConfigEnvHostEnvs == EnvsOver({"PORT"}, {"8080"})

\* "A=b c" is malformed: a bare value with a space
ConfigEnvFiles ==
    {Merge2(Merge2(b, d), Merge2(e, j)) :
        b \in EnvsOver({"/app/.env"}, {File("PORT=9"), File("A=b c")}),
        d \in EnvsOver({"/app/.env.dist"}, {File("PORT=7")}),
        e \in EnvsOver({"/app/.env.dev"}, {File("A=b c")}),
        j \in EnvsOver({"/app/c.json"}, {File("{\"a\":{\"b\":3},\"port\":1}")})}

ConfigEnvOptions ==
    [schema : {[t |-> "schema", v |-> "any"]},
     env : {Undefined, Bool(TRUE),
            [t |-> "options", v |-> [optional |-> TRUE]],
            [t |-> "options", v |-> [optional |-> FALSE]],
            [t |-> "options", v |-> [optional |-> FALSE, overrideExisting |-> TRUE]]},
     defaults : {Undefined},
     sources : {Undefined, Str("c.json"),
                Obj(<<<<"port", Str("%env(number:PORT)%")>>>>)}]

InitConfigEnv ==
    /\ process_env \in ConfigEnvHostEnvs
    /\ files \in ConfigEnvFiles
    /\ shell = NoShell
    /\ call = NoCall
    /\ pre_env = <<>>
    /\ ncalls = 0

CallDefineConfigEnv ==
    /\ call = NoCall
    /\ \E options \in ConfigEnvOptions :
         LET ended(R) ==
                 /\ process_env' = R.env
                 /\ call' = [op |-> "defineConfig", options |-> options, run |-> R]
         IN  ended(defineConfig(process_env, files, options, shell))
    /\ pre_env' = process_env
    /\ ncalls' = ncalls + 1
    /\ UNCHANGED <<files, shell>>

SpecConfigEnv == InitConfigEnv /\ [][CallDefineConfigEnv]_vars

\* what dotenv.loadEnv does when loadEnvFiles calls it for the last call
CascadeOfCall ==
    LET cascade(o) ==
            loadEnv(pre_env, files, pathResolve(Cwd, o.path), o.envKey, o.defaultEnv,
                    o.testEnvs, o.overrideExisting, shell)
    IN  cascade(normalizeEnvOptions(call.options.env))

\* defineConfig went on to load the sources
SourcesLoaded ==
    /\ call.run.merged # Undefined
    /\ call.run.errName \in {"", "ConfigFileNotFoundError", "Error"}
    /\ call.run.errName = "" <=> call.run.config # Undefined

\* C12: loadEnv raises PathError when neither base nor base.dist can be read;
\* defineConfig swallows that PathError iff env.optional is true (the
\* default) and then goes on to load the sources; a FormatError raised by any
\* cascade file is never swallowed and surfaces to the caller.
C12_OnlyOptionalPathErrorSwallowed ==
    call.op = "defineConfig" =>
        LET judged(o, L, R) ==
                /\ (~CanRead(files, "/app/.env") /\ ~CanRead(files, "/app/.env.dist"))
                       <=> L.errName = "PathError"
                /\ (L.errName = "PathError" /\ o.optional) => SourcesLoaded
                /\ (L.errName = "PathError" /\ ~o.optional) =>
                       /\ R.errName = "PathError"
                       /\ R.err = "Env path not readable or is a directory: /app/.env"
                       /\ R.merged = Undefined
                /\ L.errName = "FormatError" =>
                       /\ R.errName = "FormatError"
                       /\ R.err = L.err
                       /\ R.merged = Undefined
                /\ L.errName = "" => SourcesLoaded
        IN  judged(normalizeEnvOptions(call.options.env), CascadeOfCall, call.run)

\* env.optional is left at its default, neither .env nor .env.dist exists,
\* and defineConfig returned the tree of c.json
C12_Witness ==
    /\ call.op = "defineConfig"
    /\ call.options.env = Undefined
    /\ ~CanRead(files, "/app/.env") /\ ~CanRead(files, "/app/.env.dist")
    /\ CascadeOfCall.errName = "PathError"
    /\ call.run.errName = ""
    /\ Len(call.run.layers) = 1
    /\ call.run.config = call.run.layers[1]

----------------------------------------------------------------------------
(* SpecConfigOnce: one call of defineConfig without env loading, with      *)
(* z.any(), whose defaults and inline sources hold placeholders for A and  *)
(* B; A may be unset, "x" or the text "%env(B)%", B may be unset or "1".   *)

OnceHostEnvs ==
    {Merge2(a, b) : a \in EnvsOver({"A"}, {"x", "%env(B)%"}),
                    b \in EnvsOver({"B"}, {"1"})}

OnceDefaults ==
    {Undefined,
     Obj(<<<<"k", Str("%env(B)%")>>>>),
     Obj(<< <<"k", Obj(<<<<"n", Str("%env(B)%")>>>>)>>, <<"m", Str("pre-%env(A)%")>> >>)}

OnceSources ==
    {Obj(<<<<"k", Str("v")>>>>),
     Obj(<<<<"k", Str("%env(A)%")>>>>),
     Obj(<<<<"k", Str("pre-%env(A)%")>>>>),
     Obj(<<<<"k", Obj(<<<<"n", Str("%env(B)%")>>>>)>>>>)}

OnceOptions ==
    [schema : {[t |-> "schema", v |-> "any"]},
     env : {Bool(FALSE)},
     defaults : OnceDefaults,
     sources : {Undefined} \cup OnceSources
               \cup {Arr(l) : l \in UNION {[1..n -> OnceSources] : n \in 0..MaxSources}}]

InitConfigOnce ==
    /\ process_env \in OnceHostEnvs
    /\ files = <<>>
    /\ shell = NoShell
    /\ call = NoCall
    /\ pre_env = <<>>
    /\ ncalls = 0

CallDefineConfigOnce ==
    /\ call = NoCall
    /\ \E options \in OnceOptions :
         LET ended(R) ==
                 /\ process_env' = R.env
                 /\ call' = [op |-> "defineConfig", options |-> options, run |-> R]
         IN  ended(defineConfig(process_env, files, options, shell))
    /\ pre_env' = process_env
    /\ ncalls' = ncalls + 1
    /\ UNCHANGED <<files, shell>>

SpecConfigOnce == InitConfigOnce /\ [][CallDefineConfigOnce]_vars

\* the variables the placeholders of a string of SpecConfigOnce name
NamedIn(s) ==
    IF s \in {"%env(A)%", "pre-%env(A)%"} THEN {"A"}
    ELSE IF s = "%env(B)%" THEN {"B"}
    ELSE {}

\* the variables named by the placeholders of the strings of a tree
RECURSIVE NamedInTree(_)
NamedInTree(tree) ==
    IF tree.t = "string" THEN NamedIn(tree.v)
    ELSE IF tree.t = "object"
    THEN UNION {NamedInTree(tree.v[i][2]) : i \in 1..Len(tree.v)}
    ELSE {}

\* a string of SpecConfigOnce with each placeholder replaced, once, by the
\* value of its variable
ReplacedOnce(s, env) ==
    IF s = "%env(A)%" THEN env["A"]
    ELSE IF s = "pre-%env(A)%" THEN "pre-" \o env["A"]
    ELSE IF s = "%env(B)%" THEN env["B"]
    ELSE s

\* a tree with the placeholders of its strings replaced once
RECURSIVE ReplacedOnceTree(_, _)
ReplacedOnceTree(tree, env) ==
    IF tree.t = "string" THEN Str(ReplacedOnce(tree.v, env))
    ELSE IF tree.t = "object"
    THEN Obj([i \in 1..Len(tree.v) |->
                 <<tree.v[i][1], ReplacedOnceTree(tree.v[i][2], env)>>])
    ELSE tree

\* C14: placeholders are resolved exactly once, on the fully merged tree: a
\* placeholder of defaults or of an earlier source whose value a later source
\* replaced is never looked up (it is not registered and raises no
\* missing-variable error), and the text a substitution produced is not
\* scanned again, even when the value of the variable is "%env(B)%".
C14_ResolvedOnceAfterMerge ==
    call.op = "defineConfig" =>
        LET judged(R, named) ==
                /\ R.merged # Undefined
                /\ R.registered \subseteq DOMAIN pre_env \cup named
                /\ R.errName = "" <=> named \subseteq DOMAIN pre_env
                /\ R.errName # "" =>
                      /\ R.errName = "Error"
                      /\ \E n \in named \ DOMAIN pre_env :
                             R.err = "Missing environment variable: " \o n
                /\ R.errName = "" =>
                      /\ R.registered = DOMAIN pre_env \cup named
                      /\ R.resolved = ReplacedOnceTree(R.merged, pre_env)
                      /\ R.config = R.resolved
        IN  judged(call.run, NamedInTree(call.run.merged))

\* defaults hold a placeholder for the unset B, the only source replaces
\* that value by "pre-%env(A)%", and A is the text "%env(B)%": defineConfig
\* returns "pre-%env(B)%" and B was never looked up
C14_Witness ==
    /\ call.op = "defineConfig"
    /\ call.options.defaults = Obj(<<<<"k", Str("%env(B)%")>>>>)
    /\ call.options.sources = Obj(<<<<"k", Str("pre-%env(A)%")>>>>)
    /\ pre_env = [v \in {"A"} |-> "%env(B)%"]
    /\ call.run.errName = ""
    /\ call.run.config = Obj(<<<<"k", Str("pre-%env(B)%")>>>>)
    /\ call.run.registered = {"A"}

----------------------------------------------------------------------------
(* SpecResolvePlain: resolvePlaceholders on trees whose strings hold no    *)
(* token %env(NAME)% or %env(TYPE:NAME)% with an upper-case NAME: plain    *)
(* text, broken tokens, and tokens written in lower case.                  *)

\* strings without "%env(" in any case, or with a token that is broken
BrokenTokens ==
    {"", "plain", "50%", "%env()%", "%env(V", "env(V)%", "%env(V)", "%env(int:V)%",
     "%env(V W)%", "%env(number:)%", "%env(V-W)%", "% env(V)%"}

\* tokens that are well formed but for the case of their letters
LowerCaseTokens == {"%env(v)%", "x%env(number:v)%", "%ENV(V)%"}

PlainTrees ==
    {Num(1), Bool(TRUE), Null, Undefined, Arr(<<>>), Obj(<<>>)}
    \cup UNION {{Str(s),
                 Arr(<<Str(s), Num(1)>>),
                 Obj(<< <<"2", Null>>, <<"k", Str(s)>> >>),
                 Obj(<<<<"k", Arr(<<Obj(<<<<"n", Str(s)>>>>)>>)>>>>)} :
                    s \in BrokenTokens \cup LowerCaseTokens}

PlainHostEnvs ==
    {Merge2(a, b) : a \in EnvsOver({"V"}, {"1"}), b \in EnvsOver({"v"}, {"2"})}

InitResolvePlain ==
    /\ process_env \in PlainHostEnvs
    /\ files = <<>>
    /\ shell = NoShell
    /\ call = NoCall
    /\ pre_env = <<>>
    /\ ncalls = 0

CallResolvePlain ==
    /\ call = NoCall
    /\ \E tree \in PlainTrees :
         LET ended(r) ==
                 call' = [op |-> "resolvePlaceholders", tree |-> tree,
                          value |-> r.value, err |-> r.err,
                          registered |-> r.registered]
         IN  ended(resolvePlaceholders(tree, process_env, {}))
    /\ pre_env' = process_env
    /\ ncalls' = ncalls + 1
    /\ UNCHANGED <<process_env, files, shell>>

SpecResolvePlain == InitResolvePlain /\ [][CallResolvePlain]_vars

\* C15 (as stated): for every tree none of whose strings contains a token
\* %env(NAME)% or %env(TYPE:NAME)% with TYPE in {string, number, boolean}
\* (case-insensitive) and NAME matching [A-Z0-9_]+, resolvePlaceholders
\* returns a structurally equal tree and performs no environment lookup.
\* No tree of SpecResolvePlain has such a token.
C15_AsStated ==
    call.op = "resolvePlaceholders" =>
        /\ call.err = ""
        /\ call.value = call.tree
        /\ call.registered = {}

----------------------------------------------------------------------------
(* SpecLex: parse is called once on one line of text, drawn from families  *)
(* of inputs that each exercise one rule of the lexer, in a process that   *)
(* sets V or leaves it unset.                                              *)

\* bare values: literal text, a reference to V (after a space or not), and
\* more literal text
BareInputs ==
    [lit1 : {"b", "b c", "b\tc", "b\\\\c"},
     ref : {"", "$V", "${V}", " $V"},
     lit2 : {"", "c", " c"}]

BareText(in) == "A=" \o in.lit1 \o in.ref \o in.lit2

\* double-quoted values: a sequence of units, each an escape or a letter
QuotedUnits == {"\\\\", "\\n", "\\r", "\\\"", "n", "a"}

QuotedInputs == [units : UNION {[1..n -> QuotedUnits] : n \in 0..MaxUnits}]

RECURSIVE Concat(_)
Concat(q) == IF q = <<>> THEN "" ELSE Head(q) \o Concat(Tail(q))

QuotedText(in) == "A=\"" \o Concat(in.units) \o "\""

\* references with a default, in a double-quoted value: body is the text
\* of the file between the modifier and the closing brace, bad the
\* character of the default that is not permitted ("" when all are)
DefaultBodies ==
    {[body |-> "d", bad |-> ""],
     [body |-> "a b", bad |-> ""],
     [body |-> "a\\b", bad |-> ""],
     [body |-> "a'b", bad |-> "'"],
     [body |-> "a\\\"b", bad |-> "\""],
     [body |-> "a{b", bad |-> "{"],
     [body |-> "a$b", bad |-> "$"],
     [body |-> "a\\$b", bad |-> "$"]}

DefaultInputs == [mod : {":-", ":="}, D : DefaultBodies]

DefaultText(in) == "A=\"${V" \o in.mod \o in.D.body \o "}\""

\* values that open a command: body is the text after "$(", open says
\* that no ")" matches the "$(" before the end of its line
CommandBodies ==
    {[body |-> "", open |-> TRUE],
     [body |-> "e", open |-> TRUE],
     [body |-> "a(b)", open |-> TRUE],
     [body |-> "a(", open |-> TRUE],
     [body |-> "e\n)", open |-> TRUE],
     [body |-> "e)", open |-> FALSE],
     [body |-> "a(b))", open |-> FALSE]}

CommandInputs == [quoted : BOOLEAN, C : CommandBodies, rest : {"", "\nB=1"}]

CommandText(in) ==
    IF in.quoted THEN "A=\"$(" \o in.C.body \o "\"" \o in.rest
    ELSE "A=$(" \o in.C.body \o in.rest

\* assignments behind the word export: gap is what stands between the
\* word and the name
ExportInputs ==
    [gap : {"", " ", "\t", "  "}, name : {"A", "_B", "FOO"}, value : {"b", "bar"}]

ExportText(in) == "export" \o in.gap \o in.name \o "=" \o in.value

\* two-line texts: what stands before the line that is in error, and that
\* line
LinesInputs ==
    [first : {"", "# c", "A=1", "A='x\ny'", "A=\"x\ny\"", "A=\"x\r\ny\"", "A=1\r"},
     second : {"B= z", "B=$(e", "B='q\nr", "B", "B=${X", "B=\"q\nr"}]

LinesText(in) == in.first \o "\n" \o in.second

LexCases ==
    {[family |-> "bare", in |-> in, text |-> BareText(in)] : in \in BareInputs}
    \cup {[family |-> "quoted", in |-> in, text |-> QuotedText(in)] : in \in QuotedInputs}
    \cup {[family |-> "default", in |-> in, text |-> DefaultText(in)] :
              in \in DefaultInputs}
    \cup {[family |-> "command", in |-> in, text |-> CommandText(in)] :
              in \in CommandInputs}
    \cup {[family |-> "export", in |-> in, text |-> ExportText(in)] :
              in \in ExportInputs}
    \cup {[family |-> "lines", in |-> in, text |-> LinesText(in)] :
              in \in LinesInputs}

LexHostEnvs == EnvsOver({"V"}, {"v", "x y"})

InitLex ==
    /\ process_env \in LexHostEnvs
    /\ files = <<>>
    /\ shell = NoShell
    /\ call = NoCall
    /\ pre_env = <<>>
    /\ ncalls = 0

CallLex ==
    /\ call = NoCall
    /\ \E case \in LexCases :
         LET returned(P) ==
                 call' = [op |-> "parse", family |-> case.family, in |-> case.in,
                          text |-> case.text, err |-> P.err,
                          errName |-> IF Failed(P) THEN ErrorName(P) ELSE "",
                          data |-> P.data, line |-> P.errLine, column |-> P.errCol,
                          values |-> P.values]
         IN  returned(parse(case.text, process_env, shell))
    /\ pre_env' = process_env
    /\ ncalls' = ncalls + 1
    /\ UNCHANGED <<process_env, files, shell>>

SpecLex == InitLex /\ [][CallLex]_vars

\* parse was called on a text of the family
Lexed(family) == call.op = "parse" /\ call.family = family

\* the bare segment of the call holds a space or tab of its own, one that
\* is neither trailing nor the product of the reference to V
LiteralSpace ==
    \/ HasWhiteSpace(call.in.lit1)
    \/ HasWhiteSpace(call.in.ref)
    \/ HasWhiteSpace(call.in.lit2)

\* C16 (as stated): for every bare value segment that, after escape
\* handling, contains a space or tab that was not produced by variable
\* interpolation, parse raises FormatError "A value containing spaces must be
\* surrounded by quotes"; this holds also when the same segment contains a
\* variable reference that expands.
C16_AsStated ==
    (Lexed("bare") /\ LiteralSpace) =>
        /\ call.errName = "FormatError"
        /\ call.err = "A value containing spaces must be surrounded by quotes"

\* what a unit of a double-quoted value stands for when backslashes are
\* paired from left to right
Decoded(unit) ==
    IF unit = "\\\\" THEN "\\"
    ELSE IF unit = "\\n" THEN "\n"
    ELSE IF unit = "\\r" THEN "\r"
    ELSE IF unit = "\\\"" THEN "\""
    ELSE unit

\* C17 (as stated): in a double-quoted value, escapes are decoded by pairing
\* backslashes left to right, not by successive string replacement: two
\* backslashes yield one backslash and do not escape the character after
\* them, backslash-n yields LF, backslash-r yields CR and backslash-quote
\* yields a double quote; so two backslashes followed by n yield a backslash
\* followed by the letter n.
C17_AsStated ==
    Lexed("quoted") =>
        /\ call.err = ""
        /\ call.values =
               <<<<"A", Concat([i \in 1..Len(call.in.units) |->
                                   Decoded(call.in.units[i])])>>>>

\* C18 (as stated): whenever a value contains ${NAME:-D} or ${NAME:=D}, the
\* default body D may contain any characters except ', ", {, $ and a
\* backslash that escapes $: a D containing one of these raises FormatError
\* naming the offending character, and a D containing none of them
\* (including a backslash that is not followed by $) raises no error.
C18_AsStated ==
    Lexed("default") =>
        IF call.in.D.bad # ""
        THEN /\ call.errName = "FormatError"
             /\ call.err = "Unsupported character \"" \o call.in.D.bad
                           \o "\" found in the default value of variable \"$V\"."
        ELSE call.err = ""

\* C19 (as stated): for every input in which a value contains "$(" with no
\* matching ")" before the end of the line or the end of the input
\* (including an input that ends right after "$("), parse raises FormatError
\* "Missing closing parenthesis.".
C19_AsStated ==
    (Lexed("command") /\ call.in.C.open) =>
        /\ call.errName = "FormatError"
        /\ call.err = "Missing closing parenthesis."

\* C20 (as stated): the export prefix of an assignment is recognised only
\* when it is followed by at least one space or tab before the name; export
\* directly followed by a name (for example exportFOO=bar) is a format error
\* and never yields an assignment.
C20_AsStated ==
    Lexed("export") =>
        IF call.in.gap = ""
        THEN call.errName = "FormatError" /\ call.values = << >>
        ELSE call.err = "" /\ call.values = << <<call.in.name, call.in.value>> >>

\* C25 (as stated): during parse the line counter increases by exactly one
\* for each LF consumed, so the line carried by a FormatError equals 1 plus
\* the number of LF characters of the (CRLF-normalised) input that precede
\* the error position, including LFs inside single- or double-quoted
\* multi-line values.
C25_AsStated ==
    (Lexed("lines") /\ call.errName = "FormatError") =>
        call.line = 1 + CountLF(Slice(call.data, 0, call.column))

----------------------------------------------------------------------------
(* Command substitution: parse under shells that answer differently.      *)
(* SpecCommands calls parse once on a one-assignment text whose value     *)
(* holds a balanced "$(...)", with or without the directive comment on    *)
(* the line before it.                                                    *)

EXPAND_DIRECTIVE == "# @dotenv-expand-commands\n"

CommandShells ==
    {[platform |-> "linux", status |-> 0, stdout |-> "foo\n"],
     [platform |-> "linux", status |-> 1, stdout |-> ""],
     [platform |-> "win32", status |-> 0, stdout |-> ""]}

SubstitutionInputs ==
    [directive : BOOLEAN, quoted : BOOLEAN, pre : {"", "x"},
     body : {"e", "a(b)", "(1+2)"}, more : BOOLEAN]

\* the value as the file writes it
SubstitutionLiteral(in) == in.pre \o "$(" \o in.body \o ")"

SubstitutionText(in) ==
    (IF in.directive THEN EXPAND_DIRECTIVE ELSE "")
    \o "A=" \o (IF in.quoted THEN "\"" \o SubstitutionLiteral(in) \o "\""
                ELSE SubstitutionLiteral(in))
    \o (IF in.more THEN "\nB=1" ELSE "")

\* what parse returns when the value is kept as it is written
SubstitutionKept(in) ==
    IF in.more THEN << <<"A", SubstitutionLiteral(in)>>, <<"B", "1">> >>
    ELSE << <<"A", SubstitutionLiteral(in)>> >>

InitCommands ==
    /\ process_env = << >>
    /\ files = <<>>
    /\ shell \in CommandShells
    /\ call = NoCall
    /\ pre_env = <<>>
    /\ ncalls = 0

CallCommands ==
    /\ call = NoCall
    /\ \E in \in SubstitutionInputs :
         LET returned(P) ==
                 call' = [op |-> "parse", in |-> in, text |-> SubstitutionText(in),
                          err |-> P.err,
                          errName |-> IF Failed(P) THEN ErrorName(P) ELSE "",
                          values |-> P.values]
         IN  returned(parse(SubstitutionText(in), process_env, shell))
    /\ pre_env' = process_env
    /\ ncalls' = ncalls + 1
    /\ UNCHANGED <<process_env, files, shell>>

SpecCommands == InitCommands /\ [][CallCommands]_vars

\* C21 (as stated): command substitution is opt-in: when the directive
\* comment "# @dotenv-expand-commands" does not appear before a value, parse
\* executes no command for that value and keeps every "$(...)" sequence in
\* it as literal text.
C21_AsStated ==
    (call.op = "parse" /\ ~call.in.directive) =>
        /\ call.err = ""
        /\ call.values = SubstitutionKept(call.in)

\* C22 (as stated): when command substitution is enabled and a command exits
\* with a non-zero status or cannot be executed, parse does not fail: the
\* original "$(...)" text is kept literally in the value and parsing of the
\* file continues.
C22_AsStated ==
    (call.op = "parse" /\ call.in.directive
        /\ shell.platform # "win32" /\ shell.status # 0) =>
        /\ call.err = ""
        /\ call.values = SubstitutionKept(call.in)

----------------------------------------------------------------------------
(* Dotenv.bootEnv *)

DebugKey == "APP_DEBUG"
ProdEnvs == <<"prod">>

\* a CommonJS module file whose module.exports is the object `exports`
Module(exports) == [bom |-> FALSE, text |-> "", exports |-> exports]

\* tryRequireObject(p): ok is FALSE for null.  canRequire says whether the
\* build has a `require` in scope (a CommonJS build has, an ES module build
\* has not, and the ReferenceError is caught)
tryRequireObject(fs, p, canRequire) ==
    IF ~CanRead(fs, p) THEN [ok |-> FALSE, exports |-> <<>>]
    ELSE IF ~canRequire THEN [ok |-> FALSE, exports |-> <<>>]
    ELSE [ok |-> TRUE, exports |-> fs[p].exports]

\* castBool(val) for a string
castBool(val) ==
    LET t == ToLowerCase(Trim(val))
    IN  IF t \in {"1", "true", "yes", "on"} THEN TRUE
        ELSE IF t \in {"0", "false", "no", "off", ""} THEN FALSE
        ELSE val # ""

\* lines 159-164: compute the debug key
bootEnvDebug(S, k, dk, defaultEnv, prodEnvs) ==
    LET currentEnv == GetOr(S.env, k, defaultEnv)
        defaultDebug == currentEnv \notin Range(prodEnvs)
        debug == IF IsSet(S.env, dk) THEN castBool(S.env[dk]) ELSE defaultDebug
    IN  IF Thrown(S) THEN S
        ELSE [S EXCEPT !.env = SetVar(S.env, dk, IF debug THEN "1" ELSE "0")]

\* lines 152-154: the map of the module is populated instead of the files
bootEnvPopulated(env, p, loaded, overrideExisting) ==
    LET populated(r) ==
            [env |-> r.env, errName |-> "", err |-> "", loaded |-> <<>>,
             written |-> r.written, envs |-> <<>>]
    IN  populated(populate(populatePath(env, p), loaded, overrideExisting))

\* line 152: the condition under which the map of the module is used
bootEnvUsesModule(env, k, R, overrideExisting) ==
    /\ R.ok
    /\ \/ overrideExisting
       \/ k \notin Keys(R.exports)
       \/ ValueOf(R.exports, k) = ""
       \/ GetOr(env, k, ValueOf(R.exports, k)) = ValueOf(R.exports, k)

bootEnvLoaded(env, fs, p, k, defaultEnv, testEnvs, overrideExisting, sh, R) ==
    IF bootEnvUsesModule(env, k, R, overrideExisting)
    THEN bootEnvPopulated(env, p, R.exports, overrideExisting)
    ELSE loadEnv(env, fs, p, k, defaultEnv, testEnvs, overrideExisting, sh)

bootEnv(env, fs, p, k, dk, prodEnvs, defaultEnv, testEnvs, overrideExisting, sh, canRequire) ==
    bootEnvDebug(bootEnvLoaded(env, fs, p, k, defaultEnv, testEnvs, overrideExisting, sh,
                               tryRequireObject(fs, p \o ".local.cjs", canRequire)),
                 k, dk, defaultEnv, prodEnvs)

----------------------------------------------------------------------------
(* SpecBootEnv: a process whose host environment and project files are    *)
(* chosen at start calls bootEnv(".env") once, with or without            *)
(* overrideExisting, in a build with or without `require`.                *)

BootModules ==
    {<< <<"APP_ENV", "dev">>, <<"A", "c">> >>,
     << <<"A", "c">> >>,
     << <<"APP_ENV", "prod">>, <<"A", "c">> >>}

OneOrNone(path, contents) == {<<>>} \cup {[p \in {path} |-> c] : c \in contents}

BootFiles ==
    {Merge2(Merge2(b, c), e) :
        b \in OneOrNone(".env", {File("A=b"), File("A=b\nAPP_ENV=prod")}),
        c \in OneOrNone(".env.local.cjs", {Module(x) : x \in BootModules}),
        e \in OneOrNone(".env.dev", {File("A=e")})}

BootHostEnvs ==
    {Merge2(Merge2(a, e), d) :
        a \in EnvsOver({"A"}, {"h"}),
        e \in EnvsOver({EnvKey}, {"test"}),
        d \in EnvsOver({DebugKey}, {"0", "Yes"})}

InitBootEnv ==
    /\ process_env \in BootHostEnvs
    /\ files \in BootFiles
    /\ shell = NoShell
    /\ call = NoCall
    /\ pre_env = <<>>
    /\ ncalls = 0

CallBootEnv ==
    /\ call = NoCall
    /\ \E overrideExisting \in BOOLEAN, canRequire \in BOOLEAN :
         LET ended(S) ==
                 /\ process_env' = S.env
                 /\ call' = [op |-> "bootEnv", overrideExisting |-> overrideExisting,
                             canRequire |-> canRequire,
                             errName |-> S.errName, err |-> S.err, loaded |-> S.loaded,
                             written |-> S.written]
         IN  ended(bootEnv(process_env, files, BasePath, EnvKey, DebugKey, ProdEnvs,
                           DefaultEnv, TestEnvs, overrideExisting, shell, canRequire))
    /\ pre_env' = process_env
    /\ ncalls' = ncalls + 1
    /\ UNCHANGED <<files, shell>>

SpecBootEnv == InitBootEnv /\ [][CallBootEnv]_vars

\* what loadEnv followed by the debug step makes of the environment the call
\* started in
CascadeThenDebug ==
    bootEnvDebug(loadEnv(pre_env, files, BasePath, EnvKey, DefaultEnv, TestEnvs,
                         call.overrideExisting, shell),
                 EnvKey, DebugKey, DefaultEnv, ProdEnvs)

\* C23 (as stated): bootEnv(base, ...) always runs the loadEnv cascade on the
\* env files before computing the debug key: a <base>.local.cjs file next to
\* base is ignored, so the values populated come only from base and its
\* cascade files, for override=false and for override=true.
C23_AsStated ==
    call.op = "bootEnv" =>
        /\ call.errName = CascadeThenDebug.errName
        /\ process_env = CascadeThenDebug.env
        /\ call.loaded = CascadeThenDebug.loaded

\* loadEnv returned twice in succession with the same arguments
RanTwice ==
    /\ Returned
    /\ call.previous = <<call.overrideExisting>>

\* C27 (as stated): loadEnv is idempotent: running loadEnv twice in
\* succession with the same arguments and unchanged files leaves process env
\* after the second run equal to process env after the first run, including
\* for files whose values reference variables defined in the same cascade.
C27_AsStated == RanTwice => process_env = pre_env

\* loadEnv ran with override and loaded the base file that assigns A and
\* then B with a reference to A
OverrideWithReference ==
    /\ Returned
    /\ call.overrideExisting
    /\ ".env" \in DOMAIN files
    /\ files[".env"].text = "A=b\nB=$A"

\* C29 (as stated): when a file is loaded with override=true and it assigns A
\* and on a later line assigns B with a reference to A, the value populated
\* for B is built from the value the file assigns to A, whatever A was in
\* process env before.
C29_AsStated == OverrideWithReference => process_env["B"] = "b"

\* C29 (amended): when a file is loaded with override=true and it assigns A
\* and on a later line assigns B with a reference to A, the value populated
\* for B is built from the value the file assigns to A when A is listed in
\* NODE_DOTENV_VARS or unset in process env at the start of the load, and
\* from the value process_env[A] had before the load otherwise.
C29_ReferenceFollowsLookupOrder ==
    OverrideWithReference =>
        process_env["B"] = IF "A" \in ListedAtStart \/ ~IsSet(pre_env, "A")
                           THEN "b" ELSE pre_env["A"]

C29_Witness ==
    /\ OverrideWithReference
    /\ "A" \notin ListedAtStart
    /\ IsSet(pre_env, "A")
    /\ pre_env["A"] = "h"
    /\ process_env["B"] = "h"
    /\ process_env["A"] # "h"

----------------------------------------------------------------------------
(* SpecFresh: in a process whose environment is empty, parse is called on *)
(* a text of at most MaxLines assignments and populate is then called on  *)
(* the map parse returned.                                                *)

FreshLines ==
    {n \o "=" \o v : n \in {"A", "B", SENTINEL_VARS},
                     v \in {"1", "", "\"x y\"", "$A", "${B:=d}"}}

FreshTexts == UNION {[1..n -> FreshLines] : n \in 0..MaxLines}

RECURSIVE JoinLines(_)
JoinLines(q) ==
    IF Len(q) = 0 THEN ""
    ELSE IF Len(q) = 1 THEN q[1]
    ELSE q[1] \o "\n" \o JoinLines(Tail(q))

InitFresh ==
    /\ process_env = << >>
    /\ files = <<>>
    /\ shell = NoShell
    /\ call = NoCall
    /\ pre_env = <<>>
    /\ ncalls = 0

ParseFresh ==
    /\ call = NoCall
    /\ \E lines \in FreshTexts :
         LET returned(P) ==
                 call' = [op |-> "parse", text |-> JoinLines(lines), err |-> P.err,
                          values |-> P.values]
         IN  returned(parse(JoinLines(lines), process_env, shell))
    /\ pre_env' = process_env
    /\ ncalls' = ncalls + 1
    /\ UNCHANGED <<process_env, files, shell>>

PopulateParsed ==
    /\ call.op = "parse"
    /\ call.err = ""
    /\ LET returned(r) ==
               /\ process_env' = r.env
               /\ call' = [op |-> "populate", text |-> call.text,
                           values |-> call.values, overrideExisting |-> FALSE,
                           written |-> r.written]
       IN  returned(populate(process_env, call.values, FALSE))
    /\ pre_env' = process_env
    /\ ncalls' = ncalls + 1
    /\ UNCHANGED <<files, shell>>

NextFresh == ParseFresh \/ PopulateParsed

SpecFresh == InitFresh /\ [][NextFresh]_vars

\* the map parse returned was populated into the empty environment
PopulatedFresh == call.op = "populate" /\ pre_env = << >>

\* the names of the parsed map in its order
KeyList(map) == [i \in 1..Len(map) |-> map[i][1]]

\* C24 (as stated): for every valid dotenv input, populating the result of
\* parse with override=false into a fresh (empty) process environment yields
\* a process-environment mapping that is the same as the parse result: every
\* parsed key is set to its parsed value.
C24_AsStated ==
    PopulatedFresh =>
        /\ DOMAIN process_env = Keys(call.values)
        /\ \A k \in Keys(call.values) : process_env[k] = ValueOf(call.values, k)

\* C24 (amended): populating the result of parse with override=false into an
\* empty process environment sets every parsed key other than
\* NODE_DOTENV_VARS to its parsed value, and the environment then holds
\* besides the parsed keys only NODE_DOTENV_VARS, set to the comma-joined
\* list of the parsed keys in their order (nothing when the result is empty).
C24_ParsedKeysAndList ==
    PopulatedFresh =>
        /\ DOMAIN process_env =
              Keys(call.values) \cup (IF call.values = <<>> THEN {} ELSE {SENTINEL_VARS})
        /\ \A k \in Keys(call.values) \ {SENTINEL_VARS} :
              process_env[k] = ValueOf(call.values, k)
        /\ call.values # <<>> =>
              process_env[SENTINEL_VARS] = JoinComma(KeyList(call.values))

C24_Witness ==
    /\ PopulatedFresh
    /\ Len(call.values) = 2
    /\ SENTINEL_VARS \notin Keys(call.values)
    /\ process_env[SENTINEL_VARS] = "A,B"

----------------------------------------------------------------------------
(* SpecTerminates: parse is called on "A=" followed by at most MaxTail    *)
(* characters of TailChars, which covers truncated and malformed values.  *)
(* The call is a step of its own (StartParse): it fixes the run of the    *)
(* parser on the text, which is a function of the text alone.  parse      *)
(* returns or throws in a second step (FinishParse), which exists only    *)
(* when the loops of that run exit.                                       *)

TailChars == {"$", "(", ")", "\"", "{", "a", "\n"}

TailTexts == {"A=" \o Concat(q) : q \in UNION {[1..n -> TailChars] : n \in 0..MaxTail}}

InitTerminates ==
    /\ process_env = << >>
    /\ files = <<>>
    /\ shell = NoShell
    /\ call = NoCall
    /\ pre_env = <<>>
    /\ ncalls = 0

StartParse ==
    /\ call = NoCall
    /\ \E text \in TailTexts :
         LET running(P) ==
                 call' = [op |-> "parsing", text |-> text,
                          run |-> [err |-> P.err, values |-> P.values]]
         IN  running(parse(text, process_env, shell))
    /\ UNCHANGED <<process_env, files, shell, pre_env, ncalls>>

FinishParse ==
    /\ call.op = "parsing"
    /\ call.run.err # NoReturn
    /\ call' = [op |-> "parse", text |-> call.text, err |-> call.run.err,
                values |-> call.run.values]
    /\ pre_env' = process_env
    /\ ncalls' = ncalls + 1
    /\ UNCHANGED <<process_env, files, shell>>

NextTerminates == StartParse \/ FinishParse

\* the program is synchronous: a call that can complete does
SpecTerminates ==
    InitTerminates /\ [][NextTerminates]_vars /\ WF_vars(FinishParse)

\* C26 (as stated): parse terminates on every finite input text: after
\* finitely many steps it either returns a mapping or raises an error, for
\* well-formed and for malformed or truncated input alike.
C26_AsStated == (call.op = "parsing") ~> (call.op = "parse")

----------------------------------------------------------------------------
(* SpecConfigForced: a process calls defineConfig at most MaxDefineCalls  *)
(* times in a project directory with cascade files for dev and prod, with *)
(* or without env.environment = "prod".                                   *)

ForcedFiles ==
    {Merge2(Merge2(Merge2(b, l), Merge2(p, q)), d) :
        b \in OneOrNone("/app/.env", {File("A=b"), File("NODE_ENV=dev")}),
        l \in OneOrNone("/app/.env.local", {File("A=l")}),
        p \in OneOrNone("/app/.env.prod", {File("A=p")}),
        q \in OneOrNone("/app/.env.prod.local", {File("A=q")}),
        d \in OneOrNone("/app/.env.dev", {File("A=e")})}

ForcedOptions ==
    [schema : {[t |-> "schema", v |-> "any"]},
     env : {Bool(TRUE),
            [t |-> "options", v |-> [environment |-> "prod"]],
            [t |-> "options", v |-> [environment |-> "prod", overrideExisting |-> TRUE]]},
     defaults : {Undefined},
     sources : {Undefined}]

InitConfigForced ==
    /\ process_env \in EnvsOver({"NODE_ENV"}, {"test"})
    /\ files \in ForcedFiles
    /\ shell = NoShell
    /\ call = NoCall
    /\ pre_env = <<>>
    /\ ncalls = 0

CallDefineConfigForced ==
    /\ ncalls < MaxDefineCalls
    /\ \E options \in ForcedOptions :
         LET ended(R) ==
                 /\ process_env' = R.env
                 /\ call' = [op |-> "defineConfig", options |-> options, run |-> R]
         IN  ended(defineConfig(process_env, files, options, shell))
    /\ pre_env' = process_env
    /\ ncalls' = ncalls + 1
    /\ UNCHANGED <<files, shell>>

SpecConfigForced == InitConfigForced /\ [][CallDefineConfigForced]_vars

\* the last call had env.environment set and overrideExisting false, found
\* the base file and returned
ForcedCall ==
    /\ call.op = "defineConfig"
    /\ normalizeEnvOptions(call.options.env).environment # ""
    /\ ~normalizeEnvOptions(call.options.env).overrideExisting
    /\ "/app/.env" \in DOMAIN files
    /\ call.run.errName = ""

\* what dotenv.loadEnv did when loadEnvFiles called it for the last call,
\* after the assignment of env.environment
ForcedCascade ==
    LET cascade(o) ==
            loadEnv(SetVar(pre_env, o.envKey, o.environment), files,
                    pathResolve(Cwd, o.path), o.envKey, o.defaultEnv,
                    o.testEnvs, o.overrideExisting, shell)
    IN  cascade(normalizeEnvOptions(call.options.env))

\* the files of the cascade that were loaded after base and base.local
SpecificLoaded ==
    {ForcedCascade.loaded[i].path : i \in 1..Len(ForcedCascade.loaded)}
        \ {"/app/.env", "/app/.env.local"}

\* C28 (as stated): when defineConfig is called with env.environment = E and
\* overrideExisting = false, the cascade runs for environment E: when
\* defineConfig returns, process_env[envKey] equals E and the
\* environment-specific files that were loaded are base.E and base.E.local.
\* This holds in every process state, including after earlier defineConfig
\* or loadEnv calls in the same process.
C28_AsStated ==
    ForcedCall =>
        /\ process_env["NODE_ENV"] = "prod"
        /\ SpecificLoaded =
              {"/app/.env.prod", "/app/.env.prod.local"} \cap DOMAIN files

----------------------------------------------------------------------------
(* The env accessor: createEnvAccessor(knownKeys) and its operations.      *)
(* SpecAccessor: a process whose environment sets some of A and B creates  *)
(* an accessor and calls read, optional and register on it, at most        *)
(* MaxAccessorCalls times; call.registered is the accessor's Set.          *)

\* read(name, options): options.given says that options has a "default"
accessorReadWith(env, registered, name, options) ==
    LET looked(r) ==
            IF r.err # "" /\ options.given
            THEN [r EXCEPT !.value = Str(options.default), !.err = ""]
            ELSE r
    IN  looked(accessorRead(env, registered, name))

\* read.optional(name)
accessorOptional(env, registered, name) ==
    [value |-> IF IsSet(env, name) THEN Str(env[name]) ELSE Undefined,
     err |-> "",
     registered |-> registered \cup {name}]

\* read.has(name)
accessorHas(env, registered, name) == name \in registered \/ IsSet(env, name)

\* read.keys(), as a set
accessorKeys(env, registered) == registered \cup DOMAIN env

\* read.register(...names)
accessorRegister(registered, names) == registered \cup names

AccessorNames == {"A", "B", "C"}

InitAccessor ==
    /\ process_env \in EnvsOver({"A", "B"}, {"1", ""})
    /\ files = <<>>
    /\ shell = NoShell
    /\ \E knownKeys \in {{}, {"A"}, {"C"}} :
         call = [op |-> "createEnvAccessor", registered |-> knownKeys]
    /\ pre_env = <<>>
    /\ ncalls = 0

ReadAccessor ==
    /\ ncalls < MaxAccessorCalls
    /\ \E name \in AccessorNames,
          options \in {[given |-> FALSE, default |-> ""], [given |-> TRUE, default |-> "d"]} :
         LET returned(r) ==
                 call' = [op |-> "read", name |-> name, options |-> options,
                          value |-> r.value, err |-> r.err,
                          before |-> call.registered, registered |-> r.registered]
         IN  returned(accessorReadWith(process_env, call.registered, name, options))
    /\ pre_env' = process_env
    /\ ncalls' = ncalls + 1
    /\ UNCHANGED <<process_env, files, shell>>

OptionalAccessor ==
    /\ ncalls < MaxAccessorCalls
    /\ \E name \in AccessorNames :
         LET returned(r) ==
                 call' = [op |-> "optional", name |-> name,
                          value |-> r.value, err |-> r.err,
                          before |-> call.registered, registered |-> r.registered]
         IN  returned(accessorOptional(process_env, call.registered, name))
    /\ pre_env' = process_env
    /\ ncalls' = ncalls + 1
    /\ UNCHANGED <<process_env, files, shell>>

RegisterAccessor ==
    /\ ncalls < MaxAccessorCalls
    /\ \E names \in SUBSET AccessorNames :
         call' = [op |-> "register", names |-> names,
                  before |-> call.registered,
                  registered |-> accessorRegister(call.registered, names)]
    /\ pre_env' = process_env
    /\ ncalls' = ncalls + 1
    /\ UNCHANGED <<process_env, files, shell>>

NextAccessor == ReadAccessor \/ OptionalAccessor \/ RegisterAccessor

SpecAccessor == InitAccessor /\ [][NextAccessor]_vars

\* the last operation read a variable that is unset in process env
UnsetRead(op) == call.op = op /\ ~IsSet(process_env, call.name)

\* has(name) and keys() answer after the last operation as before it
AccessorUnchanged ==
    /\ accessorHas(process_env, call.registered, call.name)
         = accessorHas(pre_env, call.before, call.name)
    /\ accessorKeys(process_env, call.registered) = accessorKeys(pre_env, call.before)

\* what the three reads of an unset variable give back
UnsetReadOutcome ==
    /\ (UnsetRead("read") /\ ~call.options.given) =>
          /\ call.err = "Missing environment variable: " \o call.name
          /\ call.value = Undefined
    /\ (UnsetRead("read") /\ call.options.given) =>
          /\ call.err = ""
          /\ call.value = Str(call.options.default)
    /\ UnsetRead("optional") =>
          /\ call.err = ""
          /\ call.value = Undefined

\* C30 (as stated): a read through the accessor of a variable that is unset
\* in process env, with no default given, raises a missing-variable error
\* and leaves the accessor unchanged: has(name) and keys() return the same
\* results after the failed read as before it (a read with a default returns
\* the default, and optional(name) returns absent, without raising).
C30_AsStated ==
    /\ UnsetReadOutcome
    /\ (UnsetRead("read") /\ ~call.options.given) => AccessorUnchanged

\* C30 (amended): a read through the accessor of a variable that is unset in
\* process env, with no default given, raises a missing-variable error and
\* registers the name: after the failed read has(name) is true and keys()
\* is what it was before together with name, and nothing else changes (a
\* read with a default returns the default, and optional(name) returns
\* absent, without raising; both register the name in the same way).
C30_FailedReadRegisters ==
    /\ UnsetReadOutcome
    /\ (UnsetRead("read") \/ UnsetRead("optional")) =>
          /\ accessorHas(process_env, call.registered, call.name)
          /\ accessorKeys(process_env, call.registered)
                = accessorKeys(pre_env, call.before) \cup {call.name}
          /\ process_env = pre_env

C30_Witness ==
    /\ UnsetRead("read")
    /\ ~call.options.given
    /\ call.err # ""
    /\ ~accessorHas(pre_env, call.before, call.name)
    /\ accessorHas(process_env, call.registered, call.name)

====
